---- MODULE Spec2Model ----
(***************************************************************************)
(* The user-profile provisioning protocol (the handle_new_user trigger of  *)
(* supabase/migrations/20250625112546_shrill_cave.sql and the table        *)
(* user_profiles it writes) and the client side that reads, creates and    *)
(* updates profile rows (src/lib/supabase.ts, src/contexts/AuthContext.tsx).*)
(*                                                                         *)
(* Text values are sequences of one-character strings, so that split_part, *)
(* || and ::text are computed and not assumed.  SQL NULL and JavaScript    *)
(* undefined are the two sentinels below.  A value that is "a row or       *)
(* nothing" is a set with at most one element.                             *)
(***************************************************************************)
EXTENDS Integers, Sequences, FiniteSets, TLC

\* ------------------------------------------------------------- bounds
\* identities that may register: ids 1..MaxIds, handed out in this order
MaxIds == 2
\* random() draws are taken from 0..MaxRand
MaxRand == 1
\* the logical clock stops at this value: no profile update starts after it
MaxClock == 2
MaxCalls == 2

\* ------------------------------------------------------------- program constants
\* IF username_counter > 1000
LoopLimit == 1000
\* floor(random() * 10000)
RandRangeBase == 10000
\* floor(random() * 100000)
RandRangeFallback == 100000

Ids == 1..MaxIds
\* the places of AuthContext.tsx that call ensureUserProfile and may be in flight
\* together: getInitialSession (line 131) and the onAuthStateChange listener (line 151)
Clients == {"getInitialSession", "onAuthStateChange"}

\* all the places of AuthContext.tsx that call ensureUserProfile: lines 131, 151,
\* 179 and 209
Callers == Clients \cup {"login", "register"}
NoId == 0

NULL == <<"<null>">>
UNDEFINED == <<"<undefined>">>

\* ------------------------------------------------------------- text
Digit(d) ==
  CASE d = 0 -> "0" [] d = 1 -> "1" [] d = 2 -> "2" [] d = 3 -> "3" [] d = 4 -> "4"
    [] d = 5 -> "5" [] d = 6 -> "6" [] d = 7 -> "7" [] d = 8 -> "8" [] d = 9 -> "9"

\* integer::text, for a non-negative integer
RECURSIVE IntToText(_)
IntToText(n) == IF n < 10 THEN <<Digit(n)>> ELSE IntToText(n \div 10) \o <<Digit(n % 10)>>

\* the split that keeps the whole text
SplitPart1_Whole(s) == s

\* split_part(s, '@', 1) and s.split('@')[0]: the text before the first '@'
RECURSIVE SplitPart1(_)
SplitPart1(s) ==
  IF s = NULL THEN NULL
  ELSE IF s = <<>> THEN <<>>
  ELSE IF Head(s) = "@" THEN <<>>
  ELSE <<Head(s)>> \o SplitPart1(Tail(s))

\* a || b of SQL: NULL when either side is NULL
SqlConcat(a, b) == IF a = NULL \/ b = NULL THEN NULL ELSE a \o b

\* COALESCE(v1, v2, ...): the first value that is not NULL
RECURSIVE Coalesce(_)
Coalesce(vals) ==
  IF vals = <<>> THEN NULL
  ELSE IF Head(vals) # NULL THEN Head(vals)
  ELSE Coalesce(Tail(vals))

\* json ->> 'key' and obj.key: NULL (undefined) when the key is absent
Get(obj, k) == IF k \in DOMAIN obj THEN obj[k] ELSE NULL

\* the values random() can take in floor(random() * range), within the bound
RandomInts(range) == {n \in 0..MaxRand : n < range}

UserPrefix == <<"u", "s", "e", "r">>
AvatarTemplate == <<"https://api.dicebear.com/7.x/avataaars/svg?seed=">>

\* a value JavaScript treats as false in a || chain
Falsy(v) == v = NULL \/ v = UNDEFINED \/ v = <<>>

\* a || b || ... of JavaScript: the first truthy value, else the last one
RECURSIVE JsOr(_)
JsOr(vals) ==
  IF Len(vals) = 1 THEN Head(vals)
  ELSE IF ~Falsy(Head(vals)) THEN Head(vals)
  ELSE JsOr(Tail(vals))

\* ------------------------------------------------------------- inputs
\* the addresses identity i may register with: the local part is free, the domain
\* is the identity's own, so that no two identities share an address
LocalChoices == { <<"a">> }

EmailChoices(i) == { local \o <<"@">> \o IntToText(i) : local \in LocalChoices }

EmptyObj == [k \in {} |-> NULL]

\* registration metadata (options.data of signUp)
MetaChoices ==
  { [lastName |-> <<"c">>],
    [username |-> <<"a">>],
    [firstName |-> <<"b">>, lastName |-> <<"c">>, avatar |-> <<"p">>],
    [firstName |-> <<>>, lastName |-> <<>>] }

\* the registration metadata of the identities the AuthProvider is run with
ProviderMetaChoices ==
  { [lastName |-> <<"c">>],
    [firstName |-> <<"b">>, lastName |-> <<"c">>, avatar |-> <<"p">>] }

\* what the registrations next to the calls of login, register and logout supply
AuthMetaChoices == { [lastName |-> <<"c">>] }

\* ------------------------------------------------------------- schema
DefaultPreferences ==
  [ notifications |->
      [email |-> TRUE, push |-> TRUE, assignments |-> TRUE, grades |-> TRUE,
       announcements |-> FALSE],
    theme |-> <<"l", "i", "g", "h", "t">>,
    language |-> <<"e", "n">> ]

Columns ==
  { "id", "username", "first_name", "last_name", "bio", "date_of_birth", "phone",
    "location", "avatar_url", "academic_info", "preferences", "created_at",
    "updated_at" }

\* the row an INSERT with the given column values stores: a column the statement
\* does not mention takes the column default
ColumnDefault(col, now) ==
  CASE col \in {"first_name", "last_name"} -> <<>>
    [] col = "academic_info" -> EmptyObj
    [] col = "preferences" -> DefaultPreferences
    [] col \in {"created_at", "updated_at"} -> now
    [] OTHER -> NULL

StoredRow(vals, now) ==
  [ col \in Columns |->
      IF col \in DOMAIN vals THEN vals[col] ELSE ColumnDefault(col, now) ]

\* PRIMARY KEY (id): the key of the new row is already in the table
PkViolation_NoPrimaryKey(tbl, row) == FALSE

PkViolation(tbl, row) == \E r \in tbl : r.id = row.id

\* username text UNIQUE: the non-NULL username of the new row is held by a row of
\* tbl, the other rows of the table
UniqueViolation_NoUnique(tbl, row) == FALSE

UniqueViolation(tbl, row) ==
  row.username # NULL /\ \E r \in tbl : r.username = row.username

\* the existence check that finds no row
UsernameExists_Never(tbl, u) == FALSE

\* WHERE username = u: never true of a NULL on either side
UsernameExists(tbl, u) == u # NULL /\ \E r \in tbl : r.username = u

\* ------------------------------------------------------------- state
VARIABLES
  auth_users,      \* committed rows of auth.users: [id, email, user_metadata, created_at]
  user_profiles,   \* committed rows of public.user_profiles
  pending,         \* pending[i]: the profile row written by registration i, not yet committed
  reg,             \* reg[i]: the identity-creation transaction of id i and its trigger
  clock,           \* now(): a logical clock; time passes when a profile update starts
  session,         \* the identity the browser's client is signed in as, or NoId
  ens,             \* ens[c]: the call of ensureUserProfile in flight at call site c
  hist,            \* hist[c]: the result of the last call completed at c, where recorded
  state,           \* the AuthState of the reducer of AuthProvider
  upd,             \* the call of updateProfile in flight, or the last one completed
  inbox,           \* auth events emitted and not yet handled by the listener
  req              \* getInitialSession and the calls of login, register and logout in flight

vars ==
  <<auth_users, user_profiles, pending, reg, clock, session, ens, hist, state, upd, inbox,
    req>>

\* the variables of the AuthProvider component
provider == <<state, upd, inbox, req>>

NoReg ==
  [ pc |-> "none",
    new |-> [id |-> NoId, email |-> NULL, raw_user_meta_data |-> EmptyObj, created_at |-> 0],
    new_username |-> NULL,
    username_counter |-> 0, started |-> 0, attempts |-> 0, first |-> "" ]

\* the record of a result {data, error}: the identity the call was for, the id of
\* the row returned (NoId for data: null) and the error
NoResult ==
  [ for |-> NoId, id |-> NoId, error |-> "unset", fetchError |-> FALSE,
    conflict |-> FALSE,
    pfor |-> NoId, pid |-> NoId, perror |-> "unset", pfetchError |-> FALSE,
    user |-> {}, data |-> {} ]

\* r: the {data, error} returned; fetchError: the call's read had failed; conflict:
\* the call's INSERT was answered with a primary-key conflict; pfor, pid, perror,
\* pfetchError: the record of the call before, where calls in sequence are recorded;
\* user, data: the identity the caller holds and the row returned, where the caller
\* goes on with them
Recorded(old, user, userId, r, fetchError, conflict, log) ==
  [ for |-> userId,
    id |-> IF r.data = {} THEN NoId ELSE (CHOOSE row \in r.data : TRUE).id,
    error |-> r.error,
    fetchError |-> fetchError,
    conflict |-> conflict,
    pfor |-> IF log = "seq" THEN old.for ELSE NoId,
    pid |-> IF log = "seq" THEN old.id ELSE NoId,
    perror |-> IF log = "seq" THEN old.error ELSE "unset",
    pfetchError |-> IF log = "seq" THEN old.fetchError ELSE FALSE,
    user |-> IF log = "caller" THEN user ELSE {},
    data |-> IF log = "caller" THEN r.data ELSE {} ]

NoEns ==
  [ pc |-> "idle", user |-> {}, userId |-> NoId, userData |-> EmptyObj,
    fetchError |-> FALSE, profileData |-> EmptyObj ]

\* AuthContext.tsx lines 75-80.  user: null is the empty set
initialState ==
  [ user |-> {}, isAuthenticated |-> FALSE, isLoading |-> TRUE, error |-> NULL ]

\* no call of updateProfile yet.  outcome: how the last call ended, "resolved" or
\* "rejected"
NoUpd ==
  [ pc |-> "idle", userId |-> NoId, updates |-> EmptyObj, error |-> "unset",
    outcome |-> "none" ]

\* getInitialSession has been called and awaits getCurrentUser; no call of login,
\* register or logout is in flight.  calls: the calls of login, register and logout
\* made so far
NoReq ==
  [ boot |-> "getuser", bootUser |-> {},
    login |-> "idle", loginId |-> NoId, loginUser |-> {},
    register |-> "idle", registerId |-> NoId, registerUser |-> {},
    logout |-> "idle",
    calls |-> 0 ]

Init ==
  /\ auth_users = {}
  /\ user_profiles = {}
  /\ pending = [i \in Ids |-> {}]
  /\ reg = [i \in Ids |-> NoReg]
  /\ clock = 1
  /\ session = NoId
  /\ ens = [c \in Callers |-> NoEns]
  /\ hist = [c \in Callers |-> NoResult]
  /\ state = initialState
  /\ upd = NoUpd
  /\ inbox = {}
  /\ req = NoReq

\* ------------------------------------------------------------- handle_new_user
\* lines 123-128 and 138-143: the base of the username
BaseUsername_NoEmail(new) ==
  Coalesce(<< Get(new.raw_user_meta_data, "username"),
              Get(new.raw_user_meta_data, "firstName"),
              Get(new.raw_user_meta_data, "first_name") >>)

BaseUsername(new) ==
  Coalesce(<< Get(new.raw_user_meta_data, "username"),
              Get(new.raw_user_meta_data, "firstName"),
              Get(new.raw_user_meta_data, "first_name"),
              SplitPart1(new.email) >>)

\* 'user' || floor(random() * range)::text, for the draw n
RandomUsername(n) == SqlConcat(UserPrefix, IntToText(n))

\* the VALUES list of both INSERT statements of the trigger
TriggerValues(new, username) ==
  [ id |-> new.id,
    username |-> username,
    first_name |-> Coalesce(<< Get(new.raw_user_meta_data, "firstName"),
                               Get(new.raw_user_meta_data, "first_name"), <<>> >>),
    last_name |-> Coalesce(<< Get(new.raw_user_meta_data, "lastName"),
                              Get(new.raw_user_meta_data, "last_name"), <<>> >>),
    avatar_url |-> Coalesce(<< Get(new.raw_user_meta_data, "avatar"),
                               SqlConcat(AvatarTemplate, new.email) >>) ]

\* an INSERT of row waits while another open transaction holds the same key
Blocked_Never(i, row) == FALSE

Blocked(i, row) ==
  \E j \in Ids \ {i} : \E r \in pending[j] :
      \/ r.id = row.id
      \/ row.username # NULL /\ r.username = row.username

\* rows of the table a statement of transaction i sees: committed ones and its own
Visible(i) == user_profiles \cup (IF i \in Ids THEN pending[i] ELSE {})

\* INSERT INTO auth.users fires the trigger: lines 121-133
RegStart(i, email, meta) ==
  /\ reg[i].pc = "none"
  /\ \A j \in Ids : j < i => reg[j].pc # "none"
  /\ LET new == [id |-> i, email |-> email, raw_user_meta_data |-> meta,
                 created_at |-> clock]
         base == BaseUsername(new)
     IN \E n \in RandomInts(RandRangeBase) :
          /\ (base # NULL /\ base # <<>>) => n = 0
          /\ reg' = [reg EXCEPT ![i] =
                       [ pc |-> "loop", new |-> new,
                         new_username |-> IF base = NULL \/ base = <<>>
                                          THEN RandomUsername(n) ELSE base,
                         username_counter |-> 0, started |-> clock,
                         attempts |-> 0, first |-> "" ]]
  /\ UNCHANGED <<auth_users, user_profiles, pending, clock, session, ens, hist, provider>>

\* the loop without the test of lines 145-149
RegLoop_NoLimit(i) ==
  /\ reg[i].pc = "loop"
  /\ IF UsernameExists(Visible(i), reg[i].new_username)
     THEN LET k == reg[i].username_counter + 1
              next == SqlConcat(BaseUsername(reg[i].new), IntToText(k))
          IN reg' = [reg EXCEPT ![i].username_counter = k,
                                ![i].new_username = next]
     ELSE reg' = [reg EXCEPT ![i].pc = "insert"]
  /\ UNCHANGED <<auth_users, user_profiles, pending, clock, session, ens, hist, provider>>

\* one evaluation of the WHILE condition and, when it holds, of the loop body:
\* lines 136-150
RegLoop(i) ==
  /\ reg[i].pc = "loop"
  /\ IF UsernameExists(Visible(i), reg[i].new_username)
     THEN LET k == reg[i].username_counter + 1
              next == SqlConcat(BaseUsername(reg[i].new), IntToText(k))
          IN IF k > LoopLimit
             THEN \E n \in RandomInts(RandRangeFallback) :
                    reg' = [reg EXCEPT ![i].username_counter = k,
                                       ![i].new_username = RandomUsername(n),
                                       ![i].pc = "insert"]
             ELSE reg' = [reg EXCEPT ![i].username_counter = k,
                                     ![i].new_username = next]
     ELSE reg' = [reg EXCEPT ![i].pc = "insert"]
  /\ UNCHANGED <<auth_users, user_profiles, pending, clock, session, ens, hist, provider>>

\* the block without WHEN OTHERS: an error that is not a unique violation leaves the
\* function and aborts the transaction
RegInsert_Raises(i, other) ==
  /\ reg[i].pc = "insert"
  /\ LET row == StoredRow(TriggerValues(reg[i].new, reg[i].new_username), reg[i].started)
     IN /\ ~Blocked(i, row)
        /\ IF other
           THEN /\ reg' = [reg EXCEPT ![i].pc = "aborted", ![i].attempts = 1,
                                      ![i].first = "others"]
                /\ UNCHANGED pending
           ELSE IF PkViolation(Visible(i), row) \/ UniqueViolation(Visible(i), row)
           THEN /\ reg' = [reg EXCEPT ![i].pc = "handler", ![i].attempts = 1,
                                      ![i].first = "unique_violation"]
                /\ UNCHANGED pending
           ELSE /\ reg' = [reg EXCEPT ![i].pc = "returned", ![i].attempts = 1,
                                      ![i].first = "ok"]
                /\ pending' = [pending EXCEPT ![i] = {row}]
  /\ UNCHANGED <<auth_users, user_profiles, clock, session, ens, hist, provider>>

\* the first INSERT of the BEGIN block, lines 153-170, and the choice of the
\* exception handler, lines 171-172 and 192-194.  other: the statement fails for
\* a reason that is not a unique violation
RegInsert(i, other) ==
  /\ reg[i].pc = "insert"
  /\ LET row == StoredRow(TriggerValues(reg[i].new, reg[i].new_username), reg[i].started)
     IN /\ ~Blocked(i, row)
        /\ IF other
           THEN /\ reg' = [reg EXCEPT ![i].pc = "returned", ![i].attempts = 1,
                                      ![i].first = "others"]
                /\ UNCHANGED pending
           ELSE IF PkViolation(Visible(i), row) \/ UniqueViolation(Visible(i), row)
           THEN /\ reg' = [reg EXCEPT ![i].pc = "handler", ![i].attempts = 1,
                                      ![i].first = "unique_violation"]
                /\ UNCHANGED pending
           ELSE /\ reg' = [reg EXCEPT ![i].pc = "returned", ![i].attempts = 1,
                                      ![i].first = "ok"]
                /\ pending' = [pending EXCEPT ![i] = {row}]
  /\ UNCHANGED <<auth_users, user_profiles, clock, session, ens, hist, provider>>

\* the handler that tries another random username after each conflict
RegHandler_RetryAgain(i, n, other) ==
  /\ reg[i].pc = "handler"
  /\ LET username == RandomUsername(n)
         row == StoredRow(TriggerValues(reg[i].new, username), reg[i].started)
     IN /\ ~Blocked(i, row)
        /\ IF other
           THEN /\ reg' = [reg EXCEPT ![i].pc = "aborted", ![i].attempts = @ + 1,
                                      ![i].new_username = username]
                /\ UNCHANGED pending
           ELSE IF PkViolation(Visible(i), row) \/ UniqueViolation(Visible(i), row)
           THEN /\ reg' = [reg EXCEPT ![i].attempts = @ + 1,
                                      ![i].new_username = username]
                /\ UNCHANGED pending
           ELSE /\ reg' = [reg EXCEPT ![i].pc = "returned", ![i].attempts = @ + 1,
                                      ![i].new_username = username]
                /\ pending' = [pending EXCEPT ![i] = {row}]
  /\ UNCHANGED <<auth_users, user_profiles, clock, session, ens, hist, provider>>

\* WHEN unique_violation, lines 172-191: a random username and the second INSERT.
\* An error of this statement is raised inside the handler, where no handler of
\* the block catches it: it leaves the function and aborts the transaction
RegHandler(i, n, other) ==
  /\ reg[i].pc = "handler"
  /\ LET username == RandomUsername(n)
         row == StoredRow(TriggerValues(reg[i].new, username), reg[i].started)
     IN /\ ~Blocked(i, row)
        /\ IF other \/ PkViolation(Visible(i), row) \/ UniqueViolation(Visible(i), row)
           THEN /\ reg' = [reg EXCEPT ![i].pc = "aborted", ![i].attempts = 2,
                                      ![i].new_username = username]
                /\ UNCHANGED pending
           ELSE /\ reg' = [reg EXCEPT ![i].pc = "returned", ![i].attempts = 2,
                                      ![i].new_username = username]
                /\ pending' = [pending EXCEPT ![i] = {row}]
  /\ UNCHANGED <<auth_users, user_profiles, clock, session, ens, hist, provider>>

\* RETURN new, line 197, and the commit of the identity-creation transaction
RegCommit(i) ==
  /\ reg[i].pc = "returned"
  /\ auth_users' = auth_users \cup
       { [ id |-> i, email |-> reg[i].new.email,
           user_metadata |-> reg[i].new.raw_user_meta_data,
           created_at |-> reg[i].new.created_at ] }
  /\ user_profiles' = user_profiles \cup pending[i]
  /\ pending' = [pending EXCEPT ![i] = {}]
  /\ reg' = [reg EXCEPT ![i].pc = "committed"]
  /\ UNCHANGED <<clock, session, ens, hist, provider>>

\* ------------------------------------------------------------- row-level security
\* auth.uid(): the identity of the caller's session; no identity for anon
\* "Users can insert own profile": TO authenticated WITH CHECK (auth.uid() = id)
InsertAllowed(uid, row) == uid # NoId /\ uid = row.id

\* the policy open to every caller
UpdateAllowed_Anyone(uid, row) == TRUE

\* "Users can update own profile": TO authenticated USING (auth.uid() = id).  With
\* no WITH CHECK of its own, the USING expression is also the check of the new row
UpdateAllowed(uid, row) == uid # NoId /\ uid = row.id

\* the SELECT policy of the owner alone
SelectAllowed_OwnOnly(uid, row) == uid # NoId /\ uid = row.id

\* the two SELECT policies are OR-ed: (auth.uid() = id) for authenticated, (true) for all
SelectAllowed(uid, row) == (uid # NoId /\ uid = row.id) \/ TRUE

\* ------------------------------------------------------------- the auth service
CommittedIds == {u.id : u \in auth_users}

\* supabase.auth.getUser(): the identity row of the session, if any
CurrentUser == {u \in auth_users : u.id = session}

\* getCurrentUser(), lines 92-95: the object {user, error} it returns
getCurrentUser == [user |-> CurrentUser, error |-> "none"]

\* a sign-in of the browser's client as a registered identity
SignIn(i) ==
  /\ session = NoId
  /\ i \in CommittedIds
  /\ session' = i
  /\ UNCHANGED <<auth_users, user_profiles, pending, reg, clock, ens, hist, provider>>

\* supabase.auth.signOut().  subscribed: a listener of onAuthStateChange is
\* registered, and SIGNED_OUT is emitted to it
SignOut(subscribed) ==
  /\ session # NoId
  /\ session' = NoId
  /\ inbox' = IF subscribed THEN inbox \cup {"SIGNED_OUT"} ELSE inbox
  /\ UNCHANGED <<auth_users, user_profiles, pending, reg, clock, ens, hist, state, upd, req>>

\* ------------------------------------------------------------- src/lib/supabase.ts
\* .select('*').eq('id', userId).single(): the one visible row with that id;
\* no row, or several, is PGRST116, which getUserProfile reports as "no profile"
SelectSingle(uid, userId) ==
  LET rows == {r \in user_profiles : r.id = userId /\ SelectAllowed(uid, r)}
  IN IF Cardinality(rows) = 1 THEN rows ELSE {}

\* getUserProfile(userId), lines 105-123.  fetchFails: the read ends in an error
\* that is not PGRST116
GetUserProfile(uid, userId, fetchFails) ==
  IF fetchFails THEN [data |-> {}, error |-> "fetch"]
  ELSE [data |-> SelectSingle(uid, userId), error |-> "none"]

\* the object ensureUserProfile builds, lines 187-204
ProfileData(userId, userData, user) ==
  [ id |-> userId,
    username |-> JsOr(<< Get(userData, "username"), SplitPart1(user.email), <<>> >>),
    first_name |-> JsOr(<< Get(userData, "firstName"), Get(userData, "first_name"), <<>> >>),
    last_name |-> JsOr(<< Get(userData, "lastName"), Get(userData, "last_name"), <<>> >>),
    avatar_url |-> JsOr(<< Get(userData, "avatar"), AvatarTemplate \o user.email >>),
    preferences |->
      [ notifications |->
          [email |-> TRUE, push |-> TRUE, assignments |-> TRUE, grades |-> TRUE,
           announcements |-> FALSE],
        theme |-> <<"l", "i", "g", "h", "t">>,
        language |-> <<"e", "n">> ] ]

\* what an INSERT of vals by a caller with identity uid answers: the SQLSTATE, or
\* "ok".  The primary key's index is the table's first and is checked first
InsertError(uid, vals) ==
  LET row == StoredRow(vals, clock)
  IN IF ~InsertAllowed(uid, row) THEN "42501"
     ELSE IF PkViolation(user_profiles, row) THEN "23505_pkey"
     ELSE IF UniqueViolation(user_profiles, row) THEN "23505_username"
     ELSE "ok"

\* createUserProfile(profile), lines 151-169: {data, error} and the table afterwards
CreateUserProfile(profile) ==
  LET row == StoredRow(profile, clock)
      err == InsertError(session, profile)
  IN [ data |-> IF err = "ok" THEN {row} ELSE {},
       error |-> IF err = "ok" THEN "none" ELSE err,
       table |-> IF err = "ok" THEN user_profiles \cup {row} ELSE user_profiles ]

\* hist after a call at c, made by a caller that holds the identity user, returns r
\* for userId.  log says what the specification records: "off" nothing, "last" the
\* result of the last call until the next call starts, "seq" the result of the last
\* call until the next call returns, "caller" the result until the caller has gone
\* on with it
Log(log, c, user, userId, r, fetchError, conflict) ==
  IF log = "off" THEN hist
  ELSE [hist EXCEPT ![c] = Recorded(hist[c], user, userId, r, fetchError, conflict, log)]

\* hist when a call starts at c and does not return at once
LogStart(log, c) ==
  IF log = "last" THEN [hist EXCEPT ![c] = NoResult] ELSE hist

\* ensureUserProfile(userId, userData), lines 172-179: the call and its getUserProfile.
\* A caller passes the id and the metadata of the identity it was handed.  That the
\* read failed is kept with the call where the results of calls are recorded
EnsureStart(c, user, userData, fetchFails, log) ==
  /\ ens[c].pc = "idle"
  /\ LET fetched == GetUserProfile(session, user.id, fetchFails)
         existingProfile == fetched.data
     IN IF existingProfile # {}
        THEN /\ ens' = [ens EXCEPT ![c] = NoEns]
             /\ hist' = Log(log, c, {user}, user.id,
                             [data |-> existingProfile, error |-> "none"], FALSE, FALSE)
        ELSE /\ ens' = [ens EXCEPT ![c] =
                          [ pc |-> "getuser", user |-> {user}, userId |-> user.id,
                            userData |-> userData,
                            fetchError |-> log \in {"last", "seq"} /\ fetched.error # "none",
                            profileData |-> EmptyObj ]]
             /\ hist' = LogStart(log, c)

\* a call of ensureUserProfile with the id and the metadata of the session's identity
EnsureCall(c, fetchFails, log) ==
  /\ \E user \in CurrentUser : EnsureStart(c, user, user.user_metadata, fetchFails, log)
  /\ UNCHANGED <<auth_users, user_profiles, pending, reg, clock, session, provider>>

\* lines 182-204: const { data: user } = await getCurrentUser(), then the profile
\* to create.  The object getCurrentUser returns has the keys user and error: the
\* key data that is read is absent, so user is undefined whoever is signed in
EnsureGetUser(c, log) ==
  /\ ens[c].pc = "getuser"
  /\ LET answer == getCurrentUser
         user == IF "data" \in DOMAIN answer THEN answer["data"] ELSE {}
     IN IF user = {}
        THEN /\ ens' = [ens EXCEPT ![c] = NoEns]
             /\ hist' = Log(log, c, ens[c].user, ens[c].userId,
                            [data |-> {}, error |-> "No authenticated user"],
                            ens[c].fetchError, FALSE)
        ELSE /\ \E u \in user :
                  ens' = [ens EXCEPT ![c].pc = "create",
                                     ![c].profileData =
                                        ProfileData(ens[c].userId, ens[c].userData, u)]
             /\ UNCHANGED hist
  /\ UNCHANGED <<auth_users, user_profiles, pending, reg, clock, session, provider>>

\* line 206: return await createUserProfile(profileData).  No call is ever at
\* "create" (EnsureGetUser), so no specification below takes this step
EnsureCreate(c, log) ==
  /\ ens[c].pc = "create"
  /\ ~Blocked(NoId, StoredRow(ens[c].profileData, clock))
  /\ LET r == CreateUserProfile(ens[c].profileData)
     IN /\ ens' = [ens EXCEPT ![c] = NoEns]
        /\ hist' = Log(log, c, ens[c].user, ens[c].userId, r, ens[c].fetchError,
                        InsertError(session, ens[c].profileData) = "23505_pkey")
        /\ user_profiles' = r.table
  /\ UNCHANGED <<auth_users, pending, reg, clock, session, provider>>

\* the profiles a signed-in caller passes to createUserProfile: its own id, with
\* or without a username
DirectCreateChoices(uid) ==
  { [id |-> uid],
    [id |-> uid, username |-> <<"a">>] }

\* createUserProfile(profile), lines 151-169, called by c on its own
DirectCreate(c, profile, log) ==
  /\ session # NoId
  /\ ens[c].pc = "idle"
  /\ ~Blocked(NoId, StoredRow(profile, clock))
  /\ LET r == CreateUserProfile(profile)
     IN /\ user_profiles' = r.table
        /\ hist' = Log(log, c, CurrentUser, profile.id, r, FALSE,
                        InsertError(session, profile) = "23505_pkey")
  /\ UNCHANGED <<auth_users, pending, reg, clock, session, ens, provider>>

\* lines 127-130: Object.entries(updates).filter(value !== undefined).  The values
\* given for id, created_at and updated_at are numbers, never undefined
CleanUpdates(updates) ==
  [k \in {x \in DOMAIN updates :
             x \in {"id", "created_at", "updated_at"} \/ updates[x] # UNDEFINED} |-> updates[k]]

\* UPDATE ... SET cleanUpdates without the trigger update_updated_at_column
UpdatedRow_NoTrigger(row, cleanUpdates, now) ==
  [ col \in Columns |->
      IF col \in DOMAIN cleanUpdates THEN cleanUpdates[col] ELSE row[col] ]

\* the row UPDATE ... SET cleanUpdates stores for row, after the BEFORE UPDATE
\* trigger update_updated_at_column has set NEW.updated_at = now()
UpdatedRow(row, cleanUpdates, now) ==
  [ col \in Columns |->
      IF col = "updated_at" THEN now
      ELSE IF col \in DOMAIN cleanUpdates THEN cleanUpdates[col]
      ELSE row[col] ]

\* updateUserProfileData(userId, updates), lines 125-149: {data, error} and the
\* table afterwards, for a caller with identity uid at time now.
\* fails: the request does not reach the store
UpdateUserProfileData(uid, userId, updates, now, fails) ==
  LET targets == {r \in user_profiles : r.id = userId /\ UpdateAllowed(uid, r)}
      news == {UpdatedRow(r, CleanUpdates(updates), now) : r \in targets}
      denied == \E n \in news : ~UpdateAllowed(uid, n)
      pkClash == \E n \in news : PkViolation(user_profiles \ targets, n)
      clash == \E n \in news : UniqueViolation(user_profiles \ targets, n)
      err == IF fails THEN "network"
             ELSE IF denied THEN "42501"
             ELSE IF pkClash THEN "23505_pkey"
             ELSE IF clash THEN "23505_username"
             ELSE IF Cardinality(news) # 1 THEN "PGRST116"
             ELSE "none"
  IN [ data |-> IF err = "none" THEN news ELSE {},
       error |-> err,
       table |-> IF err = "none" THEN (user_profiles \ targets) \cup news
                 ELSE user_profiles ]

DirectUpdateChoices ==
  { [username |-> <<"a">>, bio |-> UNDEFINED] } \cup { [id |-> i] : i \in Ids }

\* the profiles any caller, signed in or not, may pass to createUserProfile
AnyCreateChoices ==
  { [id |-> i] : i \in Ids } \cup { [id |-> i, username |-> <<"a">>] : i \in Ids }

\* createUserProfile(profile), lines 151-169, called by whoever holds the session,
\* or by a caller without one
AnyCreate(profile) ==
  /\ ~Blocked(NoId, StoredRow(profile, clock))
  /\ user_profiles' = CreateUserProfile(profile).table
  /\ UNCHANGED <<auth_users, pending, reg, clock, session, ens, hist, provider>>

\* updateUserProfileData called on its own; time has passed since the last statement
DirectUpdate(userId, updates) ==
  /\ clock < MaxClock
  /\ LET r == UpdateUserProfileData(session, userId, updates, clock + 1, FALSE)
     IN /\ \A n \in r.data : ~Blocked(NoId, n)
        /\ user_profiles' = r.table
  /\ clock' = clock + 1
  /\ UNCHANGED <<auth_users, pending, reg, session, ens, hist, provider>>

\* supabase.auth.updateUser({data}), supabase.ts lines 97-102: data is merged into
\* the metadata of the session's identity.  {error, table}
UpdateUserProfile(uid, data, fails) ==
  LET targets == {u \in auth_users : u.id = uid}
      merged(u) == [u EXCEPT !.user_metadata =
                      [k \in DOMAIN u.user_metadata \cup DOMAIN data |->
                          IF k \in DOMAIN data THEN data[k] ELSE u.user_metadata[k]]]
  IN IF fails \/ targets = {}
     THEN [error |-> "auth", table |-> auth_users]
     ELSE [error |-> "none",
           table |-> (auth_users \ targets) \cup {merged(u) : u \in targets}]

\* ------------------------------------------------------------- src/contexts/AuthContext.tsx
\* { ...a, ...b }: the keys of both, b's value where b has the key
Spread_Replace(a, b) == b

Spread(a, b) ==
  [k \in DOMAIN a \cup DOMAIN b |-> IF k \in DOMAIN b THEN b[k] ELSE a[k]]

\* the reducer with line 66 as { ...state.user, ...action.payload }, without the
\* test of state.user
authReducer_MergeIntoNull(s, action) ==
  CASE action.type = "LOGIN_START" ->
         [s EXCEPT !.isLoading = TRUE, !.error = NULL]
    [] action.type = "LOGIN_SUCCESS" ->
         [s EXCEPT !.user = {action.payload}, !.isAuthenticated = TRUE,
                   !.isLoading = FALSE, !.error = NULL]
    [] action.type = "LOGIN_FAILURE" ->
         [s EXCEPT !.user = {}, !.isAuthenticated = FALSE, !.isLoading = FALSE,
                   !.error = action.payload]
    [] action.type = "LOGOUT" ->
         [s EXCEPT !.user = {}, !.isAuthenticated = FALSE, !.isLoading = FALSE,
                   !.error = NULL]
    [] action.type = "UPDATE_PROFILE" ->
         [s EXCEPT !.user = IF s.user = {} THEN {action.payload}
                            ELSE {Spread(u, action.payload) : u \in s.user}]
    [] action.type = "SET_LOADING" ->
         [s EXCEPT !.isLoading = action.payload]
    [] OTHER -> s

\* the reducer whose LOGIN_FAILURE keeps the user and isAuthenticated
authReducer_FailureKeepsUser(s, action) ==
  CASE action.type = "LOGIN_START" ->
         [s EXCEPT !.isLoading = TRUE, !.error = NULL]
    [] action.type = "LOGIN_SUCCESS" ->
         [s EXCEPT !.user = {action.payload}, !.isAuthenticated = TRUE,
                   !.isLoading = FALSE, !.error = NULL]
    [] action.type = "LOGIN_FAILURE" ->
         [s EXCEPT !.isLoading = FALSE, !.error = action.payload]
    [] action.type = "LOGOUT" ->
         [s EXCEPT !.user = {}, !.isAuthenticated = FALSE, !.isLoading = FALSE,
                   !.error = NULL]
    [] action.type = "UPDATE_PROFILE" ->
         [s EXCEPT !.user = {Spread(u, action.payload) : u \in s.user}]
    [] action.type = "SET_LOADING" ->
         [s EXCEPT !.isLoading = action.payload]
    [] OTHER -> s

\* authReducer, lines 35-73
authReducer(s, action) ==
  CASE action.type = "LOGIN_START" ->
         [s EXCEPT !.isLoading = TRUE, !.error = NULL]
    [] action.type = "LOGIN_SUCCESS" ->
         [s EXCEPT !.user = {action.payload}, !.isAuthenticated = TRUE,
                   !.isLoading = FALSE, !.error = NULL]
    [] action.type = "LOGIN_FAILURE" ->
         [s EXCEPT !.user = {}, !.isAuthenticated = FALSE, !.isLoading = FALSE,
                   !.error = action.payload]
    [] action.type = "LOGOUT" ->
         [s EXCEPT !.user = {}, !.isAuthenticated = FALSE, !.isLoading = FALSE,
                   !.error = NULL]
    [] action.type = "UPDATE_PROFILE" ->
         [s EXCEPT !.user = {Spread(u, action.payload) : u \in s.user}]
    [] action.type = "SET_LOADING" ->
         [s EXCEPT !.isLoading = action.payload]
    [] OTHER -> s

\* profile?.col: undefined when there is no profile
ProfileGet(profile, col) ==
  IF profile = {} THEN UNDEFINED ELSE (CHOOSE row \in profile : TRUE)[col]

\* objs?.k, for objs a record or nothing: the value or nothing
OptGet(objs, k) == {o[k] : o \in {x \in objs : k \in DOMAIN x}}

\* a ?? b ?? dflt, for a and b a value or nothing
Nullish(a, b, dflt) ==
  IF a # {} THEN CHOOSE v \in a : TRUE
  ELSE IF b # {} THEN CHOOSE v \in b : TRUE
  ELSE dflt

\* a value or nothing as a value: undefined for nothing
ValueOf(a) == IF a = {} THEN UNDEFINED ELSE CHOOSE v \in a : TRUE

\* the text before the first sep
RECURSIVE SplitFirst(_, _)
SplitFirst(str, sep) ==
  IF str = <<>> THEN <<>>
  ELSE IF Head(str) = sep THEN <<>>
  ELSE <<Head(str)>> \o SplitFirst(Tail(str), sep)

\* new Date(text): a date without a time is midnight; as its ISO text
NewDate(text) ==
  IF \E n \in 1..Len(text) : text[n] = "T" THEN text ELSE text \o <<"T", "0">>

\* date.toISOString().split('T')[0]
DateOnly(date) == SplitFirst(date, "T")

\* convertToAuthUser(user, profile), lines 83-119, called at time now.
\* isEmailVerified is left out: the model's identities carry no confirmation time
convertToAuthUser(user, profile, now) ==
  LET metadata == user.user_metadata
      preferences == OptGet(profile, "preferences")
      notifications == OptGet(preferences, "notifications")
      metaNotifications == OptGet({metadata}, "notifications")
      academic_info == OptGet(profile, "academic_info")
  IN [ id |-> user.id,
       email |-> JsOr(<< user.email, <<>> >>),
       username |-> JsOr(<< ProfileGet(profile, "username"), Get(metadata, "username"),
                            SplitPart1(user.email), <<>> >>),
       firstName |-> JsOr(<< ProfileGet(profile, "first_name"), Get(metadata, "firstName"),
                             Get(metadata, "first_name"), <<>> >>),
       lastName |-> JsOr(<< ProfileGet(profile, "last_name"), Get(metadata, "lastName"),
                            Get(metadata, "last_name"), <<>> >>),
       avatar |-> JsOr(<< ProfileGet(profile, "avatar_url"), Get(metadata, "avatar"),
                          AvatarTemplate \o user.email >>),
       bio |-> JsOr(<< ProfileGet(profile, "bio"), Get(metadata, "bio"), <<>> >>),
       dateOfBirth |->
         IF ~Falsy(ProfileGet(profile, "date_of_birth"))
         THEN NewDate(ProfileGet(profile, "date_of_birth"))
         ELSE IF ~Falsy(Get(metadata, "dateOfBirth"))
         THEN NewDate(Get(metadata, "dateOfBirth"))
         ELSE UNDEFINED,
       phone |-> JsOr(<< ProfileGet(profile, "phone"), Get(metadata, "phone"), <<>> >>),
       location |-> JsOr(<< ProfileGet(profile, "location"), Get(metadata, "location"),
                            <<>> >>),
       joinDate |-> user.created_at,
       lastLogin |-> now,
       preferences |->
         [ notifications |->
             [ email |-> Nullish(OptGet(notifications, "email"),
                                 OptGet(metaNotifications, "email"), TRUE),
               push |-> Nullish(OptGet(notifications, "push"),
                                OptGet(metaNotifications, "push"), TRUE),
               assignments |-> Nullish(OptGet(notifications, "assignments"),
                                       OptGet(metaNotifications, "assignments"), TRUE),
               grades |-> Nullish(OptGet(notifications, "grades"),
                                  OptGet(metaNotifications, "grades"), TRUE),
               announcements |-> Nullish(OptGet(notifications, "announcements"),
                                         OptGet(metaNotifications, "announcements"),
                                         FALSE) ],
           theme |-> JsOr(<< ValueOf(OptGet(preferences, "theme")), Get(metadata, "theme"),
                             <<"l", "i", "g", "h", "t">> >>),
           language |-> JsOr(<< ValueOf(OptGet(preferences, "language")),
                                Get(metadata, "language"), <<"e", "n">> >>) ],
       academicInfo |->
         [ studentId |-> JsOr(<< ValueOf(OptGet(academic_info, "studentId")),
                                 Get(metadata, "studentId"), <<>> >>),
           major |-> JsOr(<< ValueOf(OptGet(academic_info, "major")),
                             Get(metadata, "major"), <<>> >>),
           year |-> JsOr(<< ValueOf(OptGet(academic_info, "year")),
                            Get(metadata, "year"), <<>> >>),
           gpa |-> JsOr(<< ValueOf(OptGet(academic_info, "gpa")),
                           Get(metadata, "gpa"), 0 >>),
           enrolledSubjects |-> JsOr(<< ValueOf(OptGet(academic_info, "enrolledSubjects")),
                                        Get(metadata, "enrolledSubjects"), <<>> >>) ] ]

\* the listener of onAuthStateChange, lines 147-151: SIGNED_IN with the session's
\* user starts ensureUserProfile.  The listener is called again for the same
\* session when the client re-announces it
OnSignedIn(fetchFails) ==
  /\ hist["onAuthStateChange"] = NoResult
  /\ EnsureCall("onAuthStateChange", fetchFails, "caller")

\* lines 152-153: the profile returned, converted and dispatched.  ensureUserProfile
\* returns its errors in {data, error}, so the catch of lines 154-157 is not reached
OnSignedInDispatch ==
  LET h == hist["onAuthStateChange"]
  IN /\ h.for # NoId
     /\ \E user \in h.user :
          state' = authReducer(state, [ type |-> "LOGIN_SUCCESS",
                                        payload |-> convertToAuthUser(user, h.data, clock) ])
     /\ hist' = [hist EXCEPT !["onAuthStateChange"] = NoResult]
     /\ UNCHANGED <<auth_users, user_profiles, pending, reg, clock, session, ens, upd, inbox, req>>

\* lines 158-159: SIGNED_OUT
OnSignedOut ==
  /\ "SIGNED_OUT" \in inbox
  /\ inbox' = inbox \ {"SIGNED_OUT"}
  /\ state' = authReducer(state, [type |-> "LOGOUT"])
  /\ UNCHANGED <<auth_users, user_profiles, pending, reg, clock, session, ens, hist, upd, req>>

\* updates.key: undefined when the caller did not give the key
Field(updates, k) == IF k \in DOMAIN updates THEN updates[k] ELSE UNDEFINED

\* lines 241-251
ProfileUpdates(updates) ==
  [ first_name |-> Field(updates, "firstName"),
    last_name |-> Field(updates, "lastName"),
    bio |-> Field(updates, "bio"),
    date_of_birth |-> IF Field(updates, "dateOfBirth") = UNDEFINED THEN UNDEFINED
                      ELSE DateOnly(updates.dateOfBirth),
    phone |-> Field(updates, "phone"),
    location |-> Field(updates, "location"),
    avatar_url |-> Field(updates, "avatar"),
    academic_info |-> Field(updates, "academicInfo"),
    preferences |-> Field(updates, "preferences") ]

\* lines 254-258: delete the keys whose value is undefined
RemoveUndefined(obj) ==
  [k \in {x \in DOMAIN obj : obj[x] # UNDEFINED} |-> obj[k]]

\* lines 268-271: the fields mirrored into the identity's metadata
AuthUpdates(updates) ==
  [k \in {x \in {"firstName", "lastName", "avatar"} : ~Falsy(Field(updates, x))} |->
      updates[k]]

\* lines 263-265: if (profileError) throw
WriteFailed_Never(error) == FALSE

WriteFailed(error) == error # "none"

\* what callers of updateProfile pass
UpdateChoices ==
  { [bio |-> <<"x">>],
    [bio |-> <<"x">>, firstName |-> <<"n">>] }

\* updateProfile(updates), lines 234-261, up to the request of updateUserProfileData.
\* Without a user the call returns at once and changes nothing
UpdateProfileCall(updates) ==
  /\ upd.pc = "idle"
  /\ clock < MaxClock
  /\ \E user \in state.user :
       upd' = [ pc |-> "write", userId |-> user.id, updates |-> updates,
                error |-> "unset", outcome |-> "none" ]
  /\ state' = authReducer(state, [type |-> "SET_LOADING", payload |-> TRUE])
  /\ UNCHANGED <<auth_users, user_profiles, pending, reg, clock, session, ens, hist, inbox, req>>

\* the store executes the request of line 261, some time after the last statement.
\* fails: the request does not reach the store
UpdateProfileWrite(fails) ==
  /\ upd.pc = "write"
  /\ clock < MaxClock
  /\ LET profileUpdates == RemoveUndefined(ProfileUpdates(upd.updates))
         r == UpdateUserProfileData(session, upd.userId, profileUpdates, clock + 1, fails)
     IN /\ user_profiles' = r.table
        /\ upd' = [upd EXCEPT !.pc = "written", !.error = r.error]
  /\ clock' = clock + 1
  /\ UNCHANGED <<auth_users, pending, reg, session, ens, hist, state, inbox, req>>

\* lines 263-286, after the answer of the store: the throw, or the request of
\* updateUserProfile, or the dispatch of UPDATE_PROFILE; finally SET_LOADING false
UpdateProfileResume ==
  /\ upd.pc = "written"
  /\ IF WriteFailed(upd.error)
     THEN /\ state' = authReducer(state, [type |-> "SET_LOADING", payload |-> FALSE])
          /\ upd' = [upd EXCEPT !.pc = "idle", !.outcome = "rejected"]
     ELSE IF DOMAIN AuthUpdates(upd.updates) # {}
     THEN /\ upd' = [upd EXCEPT !.pc = "mirror"]
          /\ UNCHANGED state
     ELSE /\ state' = authReducer(
                         authReducer(state, [ type |-> "UPDATE_PROFILE",
                                              payload |-> upd.updates ]),
                         [type |-> "SET_LOADING", payload |-> FALSE])
          /\ upd' = [upd EXCEPT !.pc = "idle", !.outcome = "resolved"]
  /\ UNCHANGED <<auth_users, user_profiles, pending, reg, clock, session, ens, hist, inbox, req>>

\* updateProfile that throws the error of updateUserProfile
UpdateProfileMirror_Throws(fails) ==
  /\ upd.pc = "mirror"
  /\ LET r == UpdateUserProfile(session, AuthUpdates(upd.updates), fails)
     IN /\ auth_users' = r.table
        /\ IF r.error # "none"
           THEN /\ state' = authReducer(state, [type |-> "SET_LOADING", payload |-> FALSE])
                /\ upd' = [upd EXCEPT !.pc = "idle", !.outcome = "rejected"]
           ELSE /\ state' = authReducer(
                               authReducer(state, [ type |-> "UPDATE_PROFILE",
                                                    payload |-> upd.updates ]),
                               [type |-> "SET_LOADING", payload |-> FALSE])
                /\ upd' = [upd EXCEPT !.pc = "idle", !.outcome = "resolved"]
  /\ UNCHANGED <<user_profiles, pending, reg, clock, session, ens, hist, inbox, req>>

\* lines 274-286: the auth service answers updateUserProfile; its error is only
\* logged.  Then UPDATE_PROFILE and SET_LOADING false
UpdateProfileMirror(fails) ==
  /\ upd.pc = "mirror"
  /\ auth_users' = UpdateUserProfile(session, AuthUpdates(upd.updates), fails).table
  /\ state' = authReducer(
                 authReducer(state, [type |-> "UPDATE_PROFILE", payload |-> upd.updates]),
                 [type |-> "SET_LOADING", payload |-> FALSE])
  /\ upd' = [upd EXCEPT !.pc = "idle", !.outcome = "resolved"]
  /\ UNCHANGED <<user_profiles, pending, reg, clock, session, ens, hist, inbox, req>>

\* the message of a failed credential operation
CredentialError == <<"e", "r", "r">>

\* hist with the result kept for caller c taken
Taken(c) == [hist EXCEPT ![c] = NoResult]

\* getInitialSession without the else of lines 134-136
BootGetUser_NoElse(fails) ==
  /\ req.boot = "getuser"
  /\ LET user == IF fails THEN {} ELSE getCurrentUser.user
     IN IF user = {}
        THEN /\ req' = [req EXCEPT !.boot = "done"]
             /\ UNCHANGED state
        ELSE /\ req' = [req EXCEPT !.boot = "ensure", !.bootUser = user]
             /\ UNCHANGED state
  /\ UNCHANGED <<auth_users, user_profiles, pending, reg, clock, session, ens, hist, upd, inbox>>

\* getInitialSession, lines 126-136: getCurrentUser is answered.  fails: the auth
\* service answers with an error and no user.  Without a user SET_LOADING false
BootGetUser(fails) ==
  /\ req.boot = "getuser"
  /\ LET user == IF fails THEN {} ELSE getCurrentUser.user
     IN IF user = {}
        THEN /\ state' = authReducer(state, [type |-> "SET_LOADING", payload |-> FALSE])
             /\ req' = [req EXCEPT !.boot = "done"]
        ELSE /\ req' = [req EXCEPT !.boot = "ensure", !.bootUser = user]
             /\ UNCHANGED state
  /\ UNCHANGED <<auth_users, user_profiles, pending, reg, clock, session, ens, hist, upd, inbox>>

\* line 131: ensureUserProfile(user.id, user.user_metadata) and its read
BootEnsure(fetchFails) ==
  /\ req.boot = "ensure"
  /\ \E user \in req.bootUser :
       EnsureStart("getInitialSession", user, user.user_metadata, fetchFails, "caller")
  /\ req' = [req EXCEPT !.boot = "dispatch"]
  /\ UNCHANGED <<auth_users, user_profiles, pending, reg, clock, session, state, upd, inbox>>

\* lines 132-133
BootDispatch ==
  LET h == hist["getInitialSession"]
  IN /\ req.boot = "dispatch"
     /\ h.for # NoId
     /\ \E user \in h.user :
          state' = authReducer(state, [ type |-> "LOGIN_SUCCESS",
                                        payload |-> convertToAuthUser(user, h.data, clock) ])
     /\ hist' = Taken("getInitialSession")
     /\ req' = [req EXCEPT !.boot = "done"]
     /\ UNCHANGED <<auth_users, user_profiles, pending, reg, clock, session, ens, upd, inbox>>

\* login(credentials), lines 167-171: LOGIN_START and the request of signIn, with
\* the credentials of identity i
LoginCall(i) ==
  /\ req.login = "idle"
  /\ req.calls < MaxCalls
  /\ state' = authReducer(state, [type |-> "LOGIN_START"])
  /\ req' = [req EXCEPT !.login = "signin", !.loginId = i, !.loginUser = {},
                         !.calls = @ + 1]
  /\ UNCHANGED <<auth_users, user_profiles, pending, reg, clock, session, ens, hist, upd, inbox>>

\* login whose catch of lines 183-185 dispatches nothing
LoginSignIn_NoFailure ==
  /\ req.login = "signin"
  /\ LET found == {u \in auth_users : u.id = req.loginId}
     IN IF found = {}
        THEN /\ req' = [req EXCEPT !.login = "idle", !.loginId = NoId]
             /\ UNCHANGED <<session, state>>
        ELSE /\ session' = req.loginId
             /\ req' = [req EXCEPT !.login = "ensure", !.loginUser = found]
             /\ UNCHANGED state
  /\ UNCHANGED <<auth_users, user_profiles, pending, reg, clock, ens, hist, upd, inbox>>

\* lines 171-177 and 183-185: signIn is answered.  No identity has these
\* credentials: the error is thrown and LOGIN_FAILURE carries its message.
\* Otherwise the client is signed in as the identity and data.user is its row
LoginSignIn ==
  /\ req.login = "signin"
  /\ LET found == {u \in auth_users : u.id = req.loginId}
     IN IF found = {}
        THEN /\ state' = authReducer(state, [ type |-> "LOGIN_FAILURE",
                                              payload |-> CredentialError ])
             /\ req' = [req EXCEPT !.login = "idle", !.loginId = NoId]
             /\ UNCHANGED session
        ELSE /\ session' = req.loginId
             /\ req' = [req EXCEPT !.login = "ensure", !.loginUser = found]
             /\ UNCHANGED state
  /\ UNCHANGED <<auth_users, user_profiles, pending, reg, clock, ens, hist, upd, inbox>>

\* lines 171-182, when signIn is answered with no error and no user: the test of
\* line 177 fails, there is no else, and login returns having dispatched nothing
LoginSignInNeither ==
  /\ req.login = "signin"
  /\ req' = [req EXCEPT !.login = "idle", !.loginId = NoId]
  /\ UNCHANGED <<auth_users, user_profiles, pending, reg, clock, session, ens, hist, state, upd,
                 inbox>>

\* line 179: ensureUserProfile(data.user.id, data.user.user_metadata) and its read
LoginEnsure(fetchFails) ==
  /\ req.login = "ensure"
  /\ \E user \in req.loginUser :
       EnsureStart("login", user, user.user_metadata, fetchFails, "caller")
  /\ req' = [req EXCEPT !.login = "dispatch"]
  /\ UNCHANGED <<auth_users, user_profiles, pending, reg, clock, session, state, upd, inbox>>

\* login that fails when ensureUserProfile returned no profile
LoginDispatch_NeedsProfile ==
  LET h == hist["login"]
  IN /\ req.login = "dispatch"
     /\ h.for # NoId
     /\ \E user \in h.user :
          state' = IF h.data = {}
                   THEN authReducer(state, [ type |-> "LOGIN_FAILURE",
                                             payload |-> CredentialError ])
                   ELSE authReducer(state, [ type |-> "LOGIN_SUCCESS",
                                             payload |-> convertToAuthUser(user, h.data, clock) ])
     /\ hist' = Taken("login")
     /\ req' = [req EXCEPT !.login = "idle"]
     /\ UNCHANGED <<auth_users, user_profiles, pending, reg, clock, session, ens, upd, inbox>>

\* lines 180-181
LoginDispatch ==
  LET h == hist["login"]
  IN /\ req.login = "dispatch"
     /\ h.for # NoId
     /\ \E user \in h.user :
          state' = authReducer(state, [ type |-> "LOGIN_SUCCESS",
                                        payload |-> convertToAuthUser(user, h.data, clock) ])
     /\ hist' = Taken("login")
     /\ req' = [req EXCEPT !.login = "idle"]
     /\ UNCHANGED <<auth_users, user_profiles, pending, reg, clock, session, ens, upd, inbox>>

\* register(data), lines 188-198: LOGIN_START and the request of signUp for the
\* address of identity i.  The auth service creates the identity in its own steps
\* (RegStart to RegCommit); an address that is registered already is refused
RegisterCall(i) ==
  /\ req.register = "idle"
  /\ req.calls < MaxCalls
  /\ \/ reg[i].pc = "committed"
     \/ reg[i].pc = "none" /\ \A j \in Ids : j < i => reg[j].pc # "none"
  /\ state' = authReducer(state, [type |-> "LOGIN_START"])
  /\ req' = [req EXCEPT !.register = "signup", !.calls = @ + 1, !.registerUser = {},
                         !.registerId = IF reg[i].pc = "none" THEN i ELSE NoId]
  /\ UNCHANGED <<auth_users, user_profiles, pending, reg, clock, session, ens, hist, upd, inbox>>

\* lines 198-207 and 220-222: signUp is answered.  With an error (the address was
\* refused, or the identity-creation transaction aborted) it is thrown and
\* LOGIN_FAILURE carries its message.  Otherwise authData.user is the new identity
\* and the timer of line 207 is set.  signedIn: the service confirms the address
\* at once and signs the client in
RegisterSignUp(signedIn) ==
  /\ req.register = "signup"
  /\ \/ req.registerId = NoId
     \/ req.registerId \in Ids /\ reg[req.registerId].pc \in {"committed", "aborted"}
  /\ LET created == {u \in auth_users : u.id = req.registerId}
     IN IF created = {}
        THEN /\ state' = authReducer(state, [ type |-> "LOGIN_FAILURE",
                                              payload |-> CredentialError ])
             /\ req' = [req EXCEPT !.register = "idle", !.registerId = NoId]
             /\ signedIn = FALSE
             /\ UNCHANGED session
        ELSE /\ session' = IF signedIn THEN req.registerId ELSE session
             /\ req' = [req EXCEPT !.register = "timer", !.registerUser = created]
             /\ UNCHANGED state
  /\ UNCHANGED <<auth_users, user_profiles, pending, reg, clock, ens, hist, upd, inbox>>

\* lines 198-219, when signUp is answered with no error and no user: the test of
\* line 204 fails, no timer is set, and register returns having dispatched nothing
RegisterSignUpNeither ==
  /\ req.register = "signup"
  /\ req.registerId = NoId
  /\ req' = [req EXCEPT !.register = "idle"]
  /\ UNCHANGED <<auth_users, user_profiles, pending, reg, clock, session, ens, hist, state, upd,
                 inbox>>

\* the timer that converts and dispatches without calling ensureUserProfile
RegisterTimer_NoEnsure(fetchFails) ==
  /\ req.register = "timer"
  /\ \E user \in req.registerUser :
       state' = authReducer(state, [ type |-> "LOGIN_SUCCESS",
                                     payload |-> convertToAuthUser(user, {}, clock) ])
  /\ req' = [req EXCEPT !.register = "idle"]
  /\ UNCHANGED <<auth_users, user_profiles, pending, reg, clock, session, ens, hist, upd, inbox>>

\* lines 207-209: the timer fires; ensureUserProfile(authData.user.id, userData)
\* and its read.  userData holds what the identity's metadata holds
RegisterTimer(fetchFails) ==
  /\ req.register = "timer"
  /\ \E user \in req.registerUser :
       EnsureStart("register", user, user.user_metadata, fetchFails, "caller")
  /\ req' = [req EXCEPT !.register = "dispatch"]
  /\ UNCHANGED <<auth_users, user_profiles, pending, reg, clock, session, state, upd, inbox>>

\* lines 210-211.  ensureUserProfile returns its errors in {data, error}, so the
\* catch of lines 212-217 is not reached
RegisterDispatch ==
  LET h == hist["register"]
  IN /\ req.register = "dispatch"
     /\ h.for # NoId
     /\ \E user \in h.user :
          state' = authReducer(state, [ type |-> "LOGIN_SUCCESS",
                                        payload |-> convertToAuthUser(user, h.data, clock) ])
     /\ hist' = Taken("register")
     /\ req' = [req EXCEPT !.register = "idle"]
     /\ UNCHANGED <<auth_users, user_profiles, pending, reg, clock, session, ens, upd, inbox>>

\* logout(), lines 225-227: the request of signOut
LogoutCall ==
  /\ req.logout = "idle"
  /\ req.calls < MaxCalls
  /\ req' = [req EXCEPT !.logout = "signout", !.calls = @ + 1]
  /\ UNCHANGED <<auth_users, user_profiles, pending, reg, clock, session, ens, hist, state, upd,
                 inbox>>

\* supabase.ts lines 87-90: the auth service executes signOut and answers {error}.
\* fails: it answers with an error and the session stays
LogoutSignOut(fails) ==
  /\ req.logout = "signout"
  /\ session' = IF fails THEN session ELSE NoId
  /\ inbox' = IF fails THEN inbox ELSE inbox \cup {"SIGNED_OUT"}
  /\ req' = [req EXCEPT !.logout = "answered"]
  /\ UNCHANGED <<auth_users, user_profiles, pending, reg, clock, ens, hist, state, upd>>

\* logout without its dispatch
LogoutDispatch_NoDispatch ==
  /\ req.logout = "answered"
  /\ req' = [req EXCEPT !.logout = "idle"]
  /\ UNCHANGED <<auth_users, user_profiles, pending, reg, clock, session, ens, hist, state, upd,
                 inbox>>

\* line 228: LOGOUT, whatever signOut returned
LogoutDispatch ==
  /\ req.logout = "answered"
  /\ state' = authReducer(state, [type |-> "LOGOUT"])
  /\ req' = [req EXCEPT !.logout = "idle"]
  /\ UNCHANGED <<auth_users, user_profiles, pending, reg, clock, session, ens, hist, upd, inbox>>

\* ------------------------------------------------------------- specifications
\* the provisioning protocol under concurrent registrations
Next ==
  \/ \E i \in Ids : \E email \in EmailChoices(i), meta \in MetaChoices : RegStart(i, email, meta)
  \/ \E i \in Ids : RegLoop(i)
  \/ \E i \in Ids, other \in BOOLEAN : RegInsert(i, other)
  \/ \E i \in Ids, n \in RandomInts(RandRangeFallback), other \in BOOLEAN : RegHandler(i, n, other)
  \/ \E i \in Ids : RegCommit(i)

Spec == Init /\ [][Next]_vars

\* a registration that starts when no other identity-creation transaction is open
RegStartAlone(i, email, meta) ==
  /\ \A j \in Ids : reg[j].pc \in {"none", "committed", "aborted"}
  /\ RegStart(i, email, meta)

\* the store with its clients: registrations arriving one at a time, sign-in and
\* sign-out, and the calls of createUserProfile and updateUserProfileData
NextStore ==
  \/ \E i \in Ids : \E email \in EmailChoices(i), meta \in MetaChoices : RegStartAlone(i, email, meta)
  \/ \E i \in Ids : RegLoop(i)
  \/ \E i \in Ids, other \in BOOLEAN : RegInsert(i, other)
  \/ \E i \in Ids, n \in RandomInts(RandRangeFallback), other \in BOOLEAN : RegHandler(i, n, other)
  \/ \E i \in Ids : RegCommit(i)
  \/ \E i \in Ids : SignIn(i)
  \/ SignOut(FALSE)
  \/ \E profile \in AnyCreateChoices : AnyCreate(profile)
  \/ \E userId \in Ids, updates \in DirectUpdateChoices : DirectUpdate(userId, updates)

SpecStore == Init /\ [][NextStore]_vars

\* the calls of ensureUserProfile and of createUserProfile by two callers, with
\* their results recorded
NextCalls ==
  \/ \E i \in Ids : \E email \in EmailChoices(i), meta \in MetaChoices : RegStartAlone(i, email, meta)
  \/ \E i \in Ids : RegLoop(i)
  \/ \E i \in Ids, other \in BOOLEAN : RegInsert(i, other)
  \/ \E i \in Ids, n \in RandomInts(RandRangeFallback), other \in BOOLEAN : RegHandler(i, n, other)
  \/ \E i \in Ids : RegCommit(i)
  \/ \E i \in Ids : SignIn(i)
  \/ SignOut(FALSE)
  \/ \E c \in Clients, fetchFails \in BOOLEAN : EnsureCall(c, fetchFails, "last")
  \/ \E c \in Clients : EnsureGetUser(c, "last")
  \/ \E c \in Clients : \E profile \in DirectCreateChoices(session) : DirectCreate(c, profile, "last")

SpecCalls == Init /\ [][NextCalls]_vars

\* calls of ensureUserProfile made one after the other at one place.  No client
\* writes a username here, so no registration meets a unique violation
NextSeq ==
  \/ \E i \in Ids : \E email \in EmailChoices(i), meta \in MetaChoices : RegStartAlone(i, email, meta)
  \/ \E i \in Ids : RegLoop(i)
  \/ \E i \in Ids, other \in BOOLEAN : RegInsert(i, other)
  \/ \E i \in Ids : RegCommit(i)
  \/ \E i \in Ids : SignIn(i)
  \/ SignOut(FALSE)
  \/ \E fetchFails \in BOOLEAN : EnsureCall("onAuthStateChange", fetchFails, "seq")
  \/ EnsureGetUser("onAuthStateChange", "seq")

SpecSeq == Init /\ [][NextSeq]_vars

\* the AuthProvider with its listener and updateProfile, over the store; the
\* listener's reads of the profile do not fail here.  No client writes a username
\* here, so no registration meets a unique violation
NextProvider ==
  \/ \E i \in Ids : \E email \in EmailChoices(i), meta \in ProviderMetaChoices : RegStartAlone(i, email, meta)
  \/ \E i \in Ids : RegLoop(i)
  \/ \E i \in Ids, other \in BOOLEAN : RegInsert(i, other)
  \/ \E i \in Ids : RegCommit(i)
  \/ \E i \in Ids : SignIn(i)
  \/ SignOut(TRUE)
  \/ OnSignedIn(FALSE)
  \/ EnsureGetUser("onAuthStateChange", "caller")
  \/ OnSignedInDispatch
  \/ OnSignedOut
  \/ \E updates \in UpdateChoices : UpdateProfileCall(updates)
  \/ \E fails \in BOOLEAN : UpdateProfileWrite(fails)
  \/ UpdateProfileResume
  \/ \E fails \in BOOLEAN : UpdateProfileMirror(fails)

SpecProvider == Init /\ [][NextProvider]_vars

\* the AuthProvider from its mount: getInitialSession, the listener, and the calls
\* of login, register and logout, over the auth service and the store.  A session
\* the client finds or is notified of comes from a sign-in elsewhere (SignIn) or
\* from login and register; sessions end by logout
NextAuth ==
  \/ \E i \in Ids : \E email \in EmailChoices(i), meta \in AuthMetaChoices : RegStartAlone(i, email, meta)
  \/ \E i \in Ids : RegLoop(i)
  \/ \E i \in Ids, other \in BOOLEAN : RegInsert(i, other)
  \/ \E i \in Ids : RegCommit(i)
  \/ \E i \in Ids : SignIn(i)
  \/ \E fails \in BOOLEAN : BootGetUser(fails)
  \/ \E fetchFails \in BOOLEAN : BootEnsure(fetchFails)
  \/ BootDispatch
  \/ OnSignedIn(FALSE)
  \/ \E c \in Callers : EnsureGetUser(c, "caller")
  \/ OnSignedInDispatch
  \/ OnSignedOut
  \/ \E i \in Ids : LoginCall(i)
  \/ LoginSignIn
  \/ \E fetchFails \in BOOLEAN : LoginEnsure(fetchFails)
  \/ LoginDispatch
  \/ \E i \in Ids : RegisterCall(i)
  \/ \E signedIn \in BOOLEAN : RegisterSignUp(signedIn)
  \/ \E fetchFails \in BOOLEAN : RegisterTimer(fetchFails)
  \/ RegisterDispatch
  \/ LogoutCall
  \/ \E fails \in BOOLEAN : LogoutSignOut(fails)
  \/ LogoutDispatch

SpecAuth == Init /\ [][NextAuth]_vars

\* the inputs of convertToAuthUser: the metadata of an identity, and the values of
\* the columns of its profile row, as registration and later updates of the
\* metadata and of the row may have left them
ConvertMetaChoices ==
  { [lastName |-> <<"c">>],
    [username |-> <<"h">>, avatar |-> <<"p">>],
    [firstName |-> <<"b">>, bio |-> <<"m">>, phone |-> <<"7">>],
    [notifications |-> [email |-> TRUE, announcements |-> TRUE], theme |-> <<"d">>] }

ConvertProfileChoices ==
  { [id |-> 1, username |-> <<"a">>],
    [id |-> 1, username |-> <<"a">>, first_name |-> <<"n">>, bio |-> <<"x">>,
      phone |-> <<"5">>],
    [id |-> 1, username |-> <<"a">>, first_name |-> <<>>, bio |-> <<>>, phone |-> <<>>],
    [id |-> 1, username |-> <<"a">>, avatar_url |-> <<"q">>,
      date_of_birth |-> <<"2", "0", "0", "0">>],
    [id |-> 1, username |-> <<"a">>,
      preferences |-> [ notifications |->
                          [email |-> FALSE, push |-> TRUE, assignments |-> TRUE,
                           grades |-> TRUE, announcements |-> FALSE],
                        theme |-> <<>>, language |-> <<"f", "r">> ]] }

\* identity 1 is registered, with one of the metadata, and signed in; it has no
\* profile row or one of the rows; the AuthProvider is mounted
InitConvert ==
  /\ \E email \in EmailChoices(1), meta \in ConvertMetaChoices :
        /\ auth_users = {[id |-> 1, email |-> email, user_metadata |-> meta, created_at |-> 1]}
        /\ reg = [i \in Ids |->
                    IF i = 1
                    THEN [NoReg EXCEPT !.pc = "committed",
                                       !.new = [id |-> 1, email |-> email,
                                                raw_user_meta_data |-> meta,
                                                created_at |-> 1]]
                    ELSE NoReg]
  /\ user_profiles \in {{}} \cup {{StoredRow(vals, 1)} : vals \in ConvertProfileChoices}
  /\ pending = [i \in Ids |-> {}]
  /\ clock = 1
  /\ session = 1
  /\ ens = [c \in Callers |-> NoEns]
  /\ hist = [c \in Callers |-> NoResult]
  /\ state = initialState
  /\ upd = NoUpd
  /\ inbox = {}
  /\ req = NoReq

\* the signed-in handler applies convertToAuthUser to the identity and to what
\* ensureUserProfile returned for it
NextConvert ==
  \/ \E fetchFails \in BOOLEAN : OnSignedIn(fetchFails)
  \/ EnsureGetUser("onAuthStateChange", "caller")
  \/ OnSignedInDispatch

SpecConvert == InitConvert /\ [][NextConvert]_vars

\* the identities that hold profiles before the model's identities register
OtherId(k) == MaxIds + 1 + k

\* the k-th username of the chain the loop walks for the base a: a, a1, a2, ...
ChainUsername(k) == IF k = 0 THEN <<"a">> ELSE <<"a">> \o IntToText(k)

\* how many usernames of the chain are held when the registration starts: none, a
\* few, all the loop can try but the last, and all of them
ChainSizes == {0, 2, LoopLimit, LoopLimit + 1}

\* the identities that hold the first m usernames of the chain and user0
TakenUsers(m) ==
  { [ id |-> OtherId(k), email |-> <<"x", "@">> \o IntToText(OtherId(k)),
      user_metadata |-> EmptyObj, created_at |-> 1 ] : k \in 0..m }

\* their profile rows: each has set its username by an update of its own row
TakenTable(m) ==
  { StoredRow([id |-> OtherId(k), username |-> ChainUsername(k)], 1) : k \in 0..(m - 1) }
    \cup { StoredRow([id |-> OtherId(m), username |-> RandomUsername(0)], 1) }

\* a table that holds a part of the chain, before identity 1 registers
InitLoop ==
  /\ \E m \in ChainSizes : auth_users = TakenUsers(m) /\ user_profiles = TakenTable(m)
  /\ pending = [i \in Ids |-> {}]
  /\ reg = [i \in Ids |-> NoReg]
  /\ clock = 1
  /\ session = NoId
  /\ ens = [c \in Callers |-> NoEns]
  /\ hist = [c \in Callers |-> NoResult]
  /\ state = initialState
  /\ upd = NoUpd
  /\ inbox = {}
  /\ req = NoReq

\* one registration, with nothing else running, against such a table
NextLoop ==
  \/ \E email \in EmailChoices(1), meta \in AuthMetaChoices : RegStart(1, email, meta)
  \/ RegLoop(1)
  \/ \E other \in BOOLEAN : RegInsert(1, other)
  \/ \E n \in RandomInts(RandRangeFallback), other \in BOOLEAN : RegHandler(1, n, other)
  \/ RegCommit(1)

SpecLoop == InitLoop /\ [][NextLoop]_vars

\* the trigger function runs on: each evaluation of the loop is followed by the next
SpecLoopFair == SpecLoop /\ WF_vars(RegLoop(1))

\* registration metadata with and without an avatar, an empty one included
MirrorMetaChoices ==
  { [lastName |-> <<"c">>],
    [firstName |-> <<"b">>, avatar |-> <<"p">>],
    [username |-> <<"h">>, avatar |-> <<>>] }

\* createUserProfile called with the object that lines 187-204 of supabase.ts build
\* for the signed-in identity and its metadata.  ensureUserProfile itself does not
\* get as far as building it (EnsureGetUser)
MirrorCreate(c) ==
  \E user \in CurrentUser :
     DirectCreate(c, ProfileData(user.id, user.user_metadata, user), "off")

\* the trigger and the object of lines 187-204, applied to the same identities:
\* registrations one at a time, some of which the trigger leaves without a row,
\* and the client-side create for the signed-in identity
NextMirror ==
  \/ \E i \in Ids : \E email \in EmailChoices(i), meta \in MirrorMetaChoices :
        RegStartAlone(i, email, meta)
  \/ \E i \in Ids : RegLoop(i)
  \/ \E i \in Ids, other \in BOOLEAN : RegInsert(i, other)
  \/ \E i \in Ids, n \in RandomInts(RandRangeFallback), other \in BOOLEAN : RegHandler(i, n, other)
  \/ \E i \in Ids : RegCommit(i)
  \/ \E i \in Ids : SignIn(i)
  \/ SignOut(FALSE)
  \/ MirrorCreate("onAuthStateChange")

SpecMirror == Init /\ [][NextMirror]_vars

\* the AuthProvider from its mount with the calls of login and register, where the
\* auth service may answer signIn and signUp with an error, with a user, or with
\* neither
NextLoading ==
  \/ \E i \in Ids : \E email \in EmailChoices(i), meta \in AuthMetaChoices : RegStartAlone(i, email, meta)
  \/ \E i \in Ids : RegLoop(i)
  \/ \E i \in Ids : RegInsert(i, FALSE)
  \/ \E i \in Ids : RegCommit(i)
  \/ \E fails \in BOOLEAN : BootGetUser(fails)
  \/ \E fetchFails \in BOOLEAN : BootEnsure(fetchFails)
  \/ BootDispatch
  \/ \E c \in Callers : EnsureGetUser(c, "caller")
  \/ \E i \in Ids : LoginCall(i)
  \/ LoginSignIn
  \/ LoginSignInNeither
  \/ \E fetchFails \in BOOLEAN : LoginEnsure(fetchFails)
  \/ LoginDispatch
  \/ \E i \in Ids : RegisterCall(i)
  \/ \E signedIn \in BOOLEAN : RegisterSignUp(signedIn)
  \/ RegisterSignUpNeither
  \/ \E fetchFails \in BOOLEAN : RegisterTimer(fetchFails)
  \/ RegisterDispatch

SpecLoading == Init /\ [][NextLoading]_vars

\* every remote call returns and every continuation and timer runs: each step that
\* is not a call by the user is taken when it stays possible
SpecLoadingFair ==
  /\ SpecLoading
  /\ WF_vars(/\ req.register = "signup"
             /\ \E i \in Ids : \E email \in EmailChoices(i), meta \in AuthMetaChoices :
                   i = req.registerId /\ RegStartAlone(i, email, meta))
  /\ WF_vars(\E i \in Ids : RegLoop(i) \/ RegInsert(i, FALSE) \/ RegCommit(i))
  /\ WF_vars(\E fails \in BOOLEAN : BootGetUser(fails))
  /\ WF_vars(\E fetchFails \in BOOLEAN : BootEnsure(fetchFails))
  /\ WF_vars(BootDispatch)
  /\ WF_vars(\E c \in Callers : EnsureGetUser(c, "caller"))
  /\ WF_vars(LoginSignIn \/ LoginSignInNeither)
  /\ WF_vars(\E fetchFails \in BOOLEAN : LoginEnsure(fetchFails))
  /\ WF_vars(LoginDispatch)
  /\ WF_vars(RegisterSignUpNeither \/ \E signedIn \in BOOLEAN : RegisterSignUp(signedIn))
  /\ WF_vars(\E fetchFails \in BOOLEAN : RegisterTimer(fetchFails))
  /\ WF_vars(RegisterDispatch)

\* what callers of updateProfile pass when they change the bio, the first name or
\* the username, or clear fields
ReloadUpdateChoices ==
  { [bio |-> <<"x">>],
    [firstName |-> <<"n">>],
    [username |-> <<"z">>],
    [firstName |-> <<>>, bio |-> <<>>] }

\* the AuthProvider of a signed-in identity with such calls of updateProfile
NextReload ==
  \/ \E i \in Ids : \E email \in EmailChoices(i), meta \in ProviderMetaChoices : RegStartAlone(i, email, meta)
  \/ \E i \in Ids : RegLoop(i)
  \/ \E i \in Ids, other \in BOOLEAN : RegInsert(i, other)
  \/ \E i \in Ids : RegCommit(i)
  \/ \E i \in Ids : SignIn(i)
  \/ OnSignedIn(FALSE)
  \/ EnsureGetUser("onAuthStateChange", "caller")
  \/ OnSignedInDispatch
  \/ \E updates \in ReloadUpdateChoices : UpdateProfileCall(updates)
  \/ \E fails \in BOOLEAN : UpdateProfileWrite(fails)
  \/ UpdateProfileResume
  \/ \E fails \in BOOLEAN : UpdateProfileMirror(fails)

SpecReload == Init /\ [][NextReload]_vars

\* getUserProfile(userId), lines 105-123, called at c by whoever holds the session,
\* or by a caller without one, for any id; the caller and the row returned are kept
DirectGet(c, userId) ==
  /\ ens[c].pc = "idle"
  /\ hist' = Log("caller", c, CurrentUser, userId,
                 GetUserProfile(session, userId, FALSE), FALSE, FALSE)
  /\ UNCHANGED <<auth_users, user_profiles, pending, reg, clock, session, ens, provider>>

\* the store with its readers: registrations one at a time, sign-in and sign-out,
\* and reads of any profile by the signed-in identity or by a caller without a
\* session
NextRead ==
  \/ \E i \in Ids : \E email \in EmailChoices(i), meta \in AuthMetaChoices : RegStartAlone(i, email, meta)
  \/ \E i \in Ids : RegLoop(i)
  \/ \E i \in Ids, other \in BOOLEAN : RegInsert(i, other)
  \/ \E i \in Ids : RegCommit(i)
  \/ \E i \in Ids : SignIn(i)
  \/ SignOut(FALSE)
  \/ \E userId \in Ids : DirectGet("onAuthStateChange", userId)

SpecRead == Init /\ [][NextRead]_vars

\* a time later than every time the clock shows
FutureTime == MaxClock + 1

\* the updates a signed-in caller passes to updateUserProfileData for its own row:
\* Partial<UserProfile> has the two timestamps among its keys
StampUpdateChoices ==
  { [bio |-> <<"x">>],
    [bio |-> <<"y">>, updated_at |-> 0],
    [created_at |-> FutureTime] }

\* the store with the updates of its rows: registrations one at a time, sign-in,
\* and updates by the signed-in identity that set a profile column, updated_at or
\* created_at
NextStamp ==
  \/ \E i \in Ids : \E email \in EmailChoices(i), meta \in AuthMetaChoices : RegStartAlone(i, email, meta)
  \/ \E i \in Ids : RegLoop(i)
  \/ \E i \in Ids, other \in BOOLEAN : RegInsert(i, other)
  \/ \E i \in Ids : RegCommit(i)
  \/ \E i \in Ids : SignIn(i)
  \/ \E userId \in Ids, updates \in StampUpdateChoices : DirectUpdate(userId, updates)

SpecStamp == Init /\ [][NextStamp]_vars

\* ------------------------------------------------------------- properties
ProfilesOf(i) == {r \in user_profiles : r.id = i}

\* the metadata names a username (a JSON null names none)
SuppliedHandle(meta) == Get(meta, "username") # NULL

\* the metadata names a given name, under either key
SuppliedGivenName(meta) ==
  Get(meta, "firstName") # NULL \/ Get(meta, "first_name") # NULL

\* C1: in every reachable state, under any interleaving of registrations, of
\* fetch-or-create calls and of client-side creates by two callers, there is at
\* most one profile row per identity id
C1_OneProfilePerIdentity ==
  \A r1, r2 \in user_profiles : r1.id = r2.id => r1 = r2

\* a client-side create was answered with a primary-key conflict, and the identity
\* it was for has its one row
C1_Witness ==
  \E c \in Clients :
     /\ hist[c].conflict
     /\ Cardinality(ProfilesOf(hist[c].for)) = 1

\* C2: in every reachable state no two profile rows hold the same non-NULL
\* username, whatever registrations, client-side creations and updates produced
\* the state; rows with a NULL username are not constrained
C2_HandlesUnique ==
  \A r1, r2 \in user_profiles :
     (r1.username # NULL /\ r1.username = r2.username) => r1 = r2

\* two profiles hold a NULL username at once
C2_Witness ==
  \E r1, r2 \in user_profiles :
     r1.id # r2.id /\ r1.username = NULL /\ r2.username = NULL

\* C3 as stated: once the trigger has run and the identity-creation transaction
\* has committed, exactly one profile row has the identity's id, and its username
\* is one no other profile has
C3_Original ==
  \A i \in Ids :
     reg[i].pc = "committed" =>
        /\ Cardinality(ProfilesOf(i)) = 1
        /\ \A r \in ProfilesOf(i) :
              r.username # NULL /\ \A r2 \in user_profiles \ {r} : r2.username # r.username

\* C3: once the trigger has run and the identity-creation transaction has
\* committed, at most one profile row has the identity's id, and exactly one unless
\* the trigger's INSERT failed with an error that is not a unique violation (WHEN
\* OTHERS, which leaves the identity without a profile); the row's username is not
\* NULL and no other profile has it
C3_ProfileAfterCommit ==
  \A i \in Ids :
     reg[i].pc = "committed" =>
        /\ Cardinality(ProfilesOf(i)) <= 1
        /\ reg[i].first # "others" => Cardinality(ProfilesOf(i)) = 1
        /\ \A r \in ProfilesOf(i) :
              r.username # NULL /\ \A r2 \in user_profiles \ {r} : r2.username # r.username

\* a registration whose base username was taken has committed with its row, next
\* to the row that holds the base
C3_Witness ==
  \E i \in Ids :
     /\ reg[i].pc = "committed"
     /\ reg[i].username_counter >= 1
     /\ Cardinality(ProfilesOf(i)) = 1
     /\ Cardinality(user_profiles) = 2

\* C4 as stated: provisioning never prevents identity creation: whatever way the
\* profile INSERT fails, the retried INSERT included, the trigger returns without
\* raising, so no identity-creation transaction is aborted by it
C4_Original ==
  \A i \in Ids : reg[i].pc # "aborted"

\* C5 as stated: of two registrations whose candidate usernames collide after both
\* passed the existence check, the one whose INSERT meets the other's row succeeds
\* too, and once committed its profile has a username no other profile has
C5_Original ==
  \A i \in Ids :
     reg[i].first = "unique_violation" =>
        /\ reg[i].pc # "aborted"
        /\ reg[i].pc = "committed" =>
              /\ Cardinality(ProfilesOf(i)) = 1
              /\ \A r \in ProfilesOf(i) :
                    \A r2 \in user_profiles \ {r} : r2.username # r.username

\* the local part of the address of registration i is the username of no other
\* profile, committed or written by an open transaction
LocalPartFree(i) ==
  \A j \in Ids \ {i} : \A r \in ProfilesOf(j) \cup pending[j] :
      r.username # SplitPart1(reg[i].new.email)

\* C6 as stated: a registration that supplied no username, and whose address has a
\* local part that is no other profile's username, gets that local part as its
\* username, whatever other metadata (a given name, say) it supplied
C6_Original ==
  \A i \in Ids : \A r \in ProfilesOf(i) :
     ( /\ reg[i].pc = "committed"
       /\ ~SuppliedHandle(reg[i].new.raw_user_meta_data)
       /\ LocalPartFree(i) )
     => r.username = SplitPart1(reg[i].new.email)

\* C6: a registration that supplied neither a username nor a given name (firstName,
\* first_name: an empty one counts as supplied), and whose address has a local part
\* that is no other profile's username, gets that local part as its username
C6_HandleIsLocalPart ==
  \A i \in Ids : \A r \in ProfilesOf(i) :
     ( /\ reg[i].pc = "committed"
       /\ ~SuppliedHandle(reg[i].new.raw_user_meta_data)
       /\ ~SuppliedGivenName(reg[i].new.raw_user_meta_data)
       /\ LocalPartFree(i) )
     => r.username = SplitPart1(reg[i].new.email)

\* a registration with a family name only has committed, and its profile's username
\* is the local part of its address
C6_Witness ==
  \E i \in Ids : \E r \in ProfilesOf(i) :
     /\ reg[i].pc = "committed"
     /\ reg[i].new.raw_user_meta_data = [lastName |-> <<"c">>]
     /\ LocalPartFree(i)
     /\ r.username = <<"a">>
     /\ r.last_name = <<"c">>

\* the last two calls completed at the listener were for the same identity, and
\* their reads did not fail
TwiceInSequence ==
  LET h == hist["onAuthStateChange"]
  IN /\ h.for # NoId
     /\ h.pfor = h.for
     /\ ~h.fetchError /\ ~h.pfetchError

\* C7 as stated: ensureUserProfile called twice in sequence for the same identity
\* returns a profile with the identity's id both times, and the table then holds
\* exactly one row for the identity
C7_Original ==
  LET h == hist["onAuthStateChange"]
  IN TwiceInSequence =>
        /\ h.pid = h.for
        /\ h.id = h.for
        /\ Cardinality(ProfilesOf(h.for)) = 1

BioOnly == DOMAIN upd.updates = {"bio"}

\* the step in which the store executes the write of such a call and accepts it
BioWriteStep ==
  BioOnly /\ upd.pc = "write" /\ upd'.pc = "written" /\ upd'.error = "none"

\* the step in which such a call resolves
BioResolveStep ==
  BioOnly /\ upd.pc = "written" /\ upd'.pc = "idle" /\ upd'.outcome = "resolved"

\* C9 as stated: updateProfile with only bio supplied leaves every other stored
\* profile column and every other field of the view model as it was, and when the
\* call resolves the view model's bio is the supplied value, with no re-fetch
C9_Original ==
  [][ /\ BioWriteStep =>
           \A r \in user_profiles : \E r2 \in user_profiles' :
              /\ r2.id = r.id
              /\ \A col \in Columns \ {"bio"} : r2[col] = r[col]
      /\ BioResolveStep =>
           \E u \in state.user : state'.user = {[u EXCEPT !.bio = upd.updates.bio]}
    ]_vars

\* C9: updateProfile with only bio supplied leaves every stored profile column
\* other than bio and updated_at (which the store sets to the time of the update)
\* as it was, in the caller's row and in every other row; when the call resolves,
\* the user the provider then holds, if any, has the supplied bio and every other
\* field as it was, with no re-fetch
C9_PartialUpdateFrame ==
  [][ /\ BioWriteStep =>
           /\ Cardinality(user_profiles') = Cardinality(user_profiles)
           /\ \A r \in user_profiles : \E r2 \in user_profiles' :
                 /\ r2.id = r.id
                 /\ \A col \in Columns \ {"bio", "updated_at"} : r2[col] = r[col]
                 /\ r.id = upd.userId => r2.bio = upd.updates.bio
                 /\ r.id # upd.userId => r2 = r
      /\ BioResolveStep =>
           /\ state.user = {} => state'.user = {}
           /\ \A u \in state.user : state'.user = {[u EXCEPT !.bio = upd.updates.bio]}
    ]_vars

\* a call with only bio supplied has resolved: the view model and the stored row
\* have the bio, the row keeps its username and avatar and has a later updated_at
C9_Witness ==
  /\ BioOnly
  /\ upd.outcome = "resolved"
  /\ \E u \in state.user : \E r \in ProfilesOf(u.id) :
        /\ u.id = upd.userId
        /\ u.bio = <<"x">>
        /\ u.username = <<"a">>
        /\ r.bio = <<"x">>
        /\ r.username = <<"a">>
        /\ r.avatar_url # NULL
        /\ r.updated_at > r.created_at

\* C10: a step of updateProfile changes the user of the view model only when the
\* store has answered the write without an error; when the store answered with an
\* error, the call ends rejecting with it and leaves the user as it is
C10_ViewModelAfterAck ==
  [][ upd' # upd =>
        /\ state'.user # state.user =>
              upd.pc \in {"written", "mirror"} /\ upd.error = "none"
        /\ (upd.pc = "written" /\ upd.error # "none") =>
              upd'.outcome = "rejected" /\ state'.user = state.user
    ]_vars

\* a call was rejected with the store's error: the user is still held, without the
\* bio the call supplied, and isLoading is false again
C10_Witness ==
  /\ upd.pc = "idle"
  /\ upd.outcome = "rejected"
  /\ upd.error # "none"
  /\ ~state.isLoading
  /\ \E u \in state.user : u.id = upd.userId /\ u.bio # upd.updates.bio

\* the reconciler holds no user and is not authenticated
Unauthenticated(s) == s.user = {} /\ ~s.isAuthenticated

\* the step in which the listener handles a SIGNED_OUT notification
SignedOutStep == "SIGNED_OUT" \in inbox /\ "SIGNED_OUT" \notin inbox'

\* the step in which a call of updateProfile in flight ends
UpdateEndStep == upd.pc # "idle" /\ upd'.pc = "idle"

\* C11: when a SIGNED_OUT notification and a profile update in flight have both
\* resolved, the reconciler is unauthenticated (user null, isAuthenticated false)
\* whichever resolves last: handling the notification leaves it unauthenticated
\* whatever the update has done, and an update that ends after the notification
\* was handled leaves it unauthenticated
C11_SignedOutDuringUpdate ==
  [][ /\ SignedOutStep => Unauthenticated(state')
      /\ (UpdateEndStep /\ Unauthenticated(state)) => Unauthenticated(state')
    ]_vars

\* an update was called for an identity that has a profile row, the session ended
\* before the store executed the write (which then matched no row), the
\* notification was handled and the call has ended: no user is held
C11_Witness ==
  /\ upd.pc = "idle"
  /\ upd.outcome = "rejected"
  /\ upd.error = "PGRST116"
  /\ ProfilesOf(upd.userId) # {}
  /\ inbox = {}
  /\ Unauthenticated(state)
  /\ ~state.isLoading

\* unauthenticated/idle, with nothing cached
IdleState == [user |-> {}, isAuthenticated |-> FALSE, isLoading |-> FALSE, error |-> NULL]

\* the step in which a call of logout dispatches after signOut was answered
LogoutEndStep == req.logout = "answered" /\ req'.logout = "idle"

BootNoSessionStep == req.boot = "getuser" /\ req'.boot = "done"

\* the step in which it is answered with the user of a session
BootSessionStep == req.boot = "getuser" /\ req'.boot = "ensure"

\* the step in which getInitialSession dispatches for that user
BootDispatchStep == req.boot = "dispatch" /\ req'.boot = "done"

\* C13: the reconciler starts in the loading state.  When the initial session query
\* is answered with no session, isLoading becomes false and nothing else changes,
\* so a reconciler that was still in its initial state is unauthenticated/idle.
\* When it is answered with a session, nothing is dispatched until fetch-or-create
\* for the session's identity has returned, and then the reconciler is
\* authenticated as that identity with isLoading false
C13_InitialSession ==
  /\ state = [user |-> {}, isAuthenticated |-> FALSE, isLoading |-> TRUE, error |-> NULL]
  /\ [][ /\ BootNoSessionStep =>
              /\ state' = [state EXCEPT !.isLoading = FALSE]
              /\ (state = initialState) => (state' = IdleState)
         /\ BootSessionStep => state' = state
         /\ BootDispatchStep =>
              /\ hist["getInitialSession"].for # NoId
              /\ \A u \in req.bootUser : hist["getInitialSession"].for = u.id
              /\ state'.isAuthenticated /\ ~state'.isLoading /\ state'.error = NULL
              /\ \E u \in state'.user : \E b \in req.bootUser :
                    u.id = b.id /\ u.email = b.email
        ]_vars

\* getInitialSession found a session and has dispatched: the reconciler is
\* authenticated as the identity it found, which has no profile row
C13_Witness ==
  /\ req.boot = "done"
  /\ state.isAuthenticated
  /\ ~state.isLoading
  /\ \E u \in state.user : \E b \in req.bootUser :
        u.id = b.id /\ ProfilesOf(u.id) = {} /\ u.username = <<"a">>

\* the reconciler after LOGIN_FAILURE with the message of the credential error
FailedState ==
  [user |-> {}, isAuthenticated |-> FALSE, isLoading |-> FALSE, error |-> CredentialError]

\* s is authenticated as the identity of the rows in users, with nothing loading
\* and no error
AuthenticatedAs(s, users) ==
  /\ s.isAuthenticated /\ ~s.isLoading /\ s.error = NULL
  /\ users # {}
  /\ \E u \in s.user : \E b \in users : u.id = b.id /\ u.email = b.email

UpdateRejectStep == upd.pc = "written" /\ upd'.pc = "idle" /\ upd'.outcome = "rejected"

\* C15 as stated: when a call of updateProfile of an authenticated reconciler fails,
\* the reconciler is then in authenticated/error-on-last-update: still
\* authenticated, with the failure message in error
C15_Original ==
  [][ (UpdateRejectStep /\ state.isAuthenticated) =>
         (state'.isAuthenticated /\ state'.error # NULL) ]_vars

\* u shows what the converter gives for the profile's columns when there is no
\* profile and the metadata has none of them
FromDefaults(u) ==
  /\ u.bio = <<>> /\ u.phone = <<>> /\ u.location = <<>>
  /\ u.dateOfBirth = UNDEFINED
  /\ u.preferences.theme = <<"l", "i", "g", "h", "t">>
  /\ u.preferences.language = <<"e", "n">>
  /\ u.preferences.notifications.email /\ ~u.preferences.notifications.announcements
  /\ u.academicInfo.major = <<>>

\* C16: on each of the four paths (initial session, signed-in notification, login,
\* register), when fetch-or-create has returned for the identity, with a profile or
\* with none and an error, the caller's next step leaves the reconciler
\* authenticated as that identity; with no profile the view model has the
\* defaults in the fields a profile would give
C16_ProfileFailureDoesNotBlock ==
  [][ \A c \in Callers :
        (hist[c].for # NoId /\ hist'[c] = NoResult) =>
           /\ AuthenticatedAs(state', hist[c].user)
           /\ hist[c].data = {} => \A u \in state'.user : FromDefaults(u)
    ]_vars

\* login has ended for an identity that has no profile row: the reconciler is
\* authenticated as it, with defaults
C16_Witness ==
  /\ req.login = "idle"
  /\ state.isAuthenticated
  /\ \E u \in state.user : \E b \in req.loginUser :
        u.id = b.id /\ ProfilesOf(u.id) = {} /\ FromDefaults(u)
  /\ hist["onAuthStateChange"] = NoResult /\ ens["onAuthStateChange"].pc = "idle"

\* the first of vals that is set (neither null nor undefined), else the last one:
\* an empty text is a set value
RECURSIVE FirstSet(_)
FirstSet(vals) ==
  IF Len(vals) = 1 THEN Head(vals)
  ELSE IF Head(vals) # NULL /\ Head(vals) # UNDEFINED THEN Head(vals)
  ELSE FirstSet(Tail(vals))

\* the step in which the signed-in handler converts and dispatches
ConvertStep ==
  hist["onAuthStateChange"].for # NoId /\ hist'["onAuthStateChange"] = NoResult

\* C17 as stated: each text field of the view model is the profile column's value
\* whenever the profile passed to the converter sets the column, to an empty text
\* included; else the value of the identity's metadata; else the literal default
C17_Original ==
  [][ ConvertStep =>
        LET h == hist["onAuthStateChange"]
            profile == h.data
        IN \A user \in h.user : \A u \in state'.user :
             LET m == user.user_metadata
             IN /\ u.firstName = FirstSet(<< ProfileGet(profile, "first_name"),
                                             Get(m, "firstName"), Get(m, "first_name"),
                                             <<>> >>)
                /\ u.lastName = FirstSet(<< ProfileGet(profile, "last_name"),
                                            Get(m, "lastName"), Get(m, "last_name"),
                                            <<>> >>)
                /\ u.bio = FirstSet(<< ProfileGet(profile, "bio"), Get(m, "bio"), <<>> >>)
                /\ u.phone = FirstSet(<< ProfileGet(profile, "phone"), Get(m, "phone"),
                                         <<>> >>)
                /\ u.location = FirstSet(<< ProfileGet(profile, "location"),
                                            Get(m, "location"), <<>> >>)
                /\ u.preferences.theme =
                     FirstSet(<< ValueOf(OptGet(OptGet(profile, "preferences"), "theme")),
                                 Get(m, "theme"), <<"l", "i", "g", "h", "t">> >>)
    ]_vars

\* name is the part of email before its first '@'
IsLocalPart(name, email) ==
  \E k \in 1..Len(email) :
     /\ email[k] = "@"
     /\ \A j \in 1..(k - 1) : email[j] # "@"
     /\ name = SubSeq(email, 1, k - 1)

\* C18: for an identity with an email and with no username and no avatar in its
\* metadata, converted with no profile, the view model's username is the part of
\* the email before the '@' and its avatar is the fixed template followed by the
\* email
C18_DerivedHandleAndAvatar ==
  [][ ConvertStep =>
        LET h == hist["onAuthStateChange"]
        IN \A user \in h.user : \A u \in state'.user :
             ( /\ h.data = {}
               /\ "username" \notin DOMAIN user.user_metadata
               /\ "avatar" \notin DOMAIN user.user_metadata )
             => /\ IsLocalPart(u.username, user.email)
                /\ u.avatar = <<"https://api.dicebear.com/7.x/avataaars/svg?seed=">>
                                 \o user.email
    ]_vars

\* the identity a@1 with a family name only and no profile row has been converted:
\* its username is a and its avatar the template with a@1
C18_Witness ==
  /\ user_profiles = {}
  /\ \E u \in state.user :
        /\ u.email = <<"a", "@", "1">>
        /\ u.username = <<"a">>
        /\ u.lastName = <<"c">>
        /\ u.avatar = <<"https://api.dicebear.com/7.x/avataaars/svg?seed=", "a", "@", "1">>

\* the step of a client of the store that changes the table: registrations change
\* reg as well
ClientWriteStep == reg' = reg /\ user_profiles' # user_profiles

\* C19: every INSERT and UPDATE of a client that changes the table is made with a
\* session, and every row it adds, changes or replaces has the id of the session's
\* identity; a caller without a session changes nothing
C19_OwnerOnly ==
  [][ ClientWriteStep =>
        /\ session # NoId
        /\ \A r \in user_profiles' \ user_profiles : r.id = session
        /\ \A r \in user_profiles \ user_profiles' : r.id = session
    ]_vars

\* a signed-in identity has updated its own row, next to the row of another
\* identity, which is as it was created
C19_Witness ==
  \E r1, r2 \in user_profiles :
     /\ r1.id = session
     /\ r1.updated_at > r1.created_at
     /\ r2.id # session
     /\ r2.updated_at = r2.created_at

\* the first text of vals that is neither absent nor empty, or NULL when there is
\* none
RECURSIVE FirstNonEmpty(_)
FirstNonEmpty(vals) ==
  IF vals = <<>> THEN NULL
  ELSE IF Head(vals) # NULL /\ Head(vals) # <<>> THEN Head(vals)
  ELSE FirstNonEmpty(Tail(vals))

\* what registration i supplies, in the order of priority: username, given name
\* (under either key), local part of the address
Candidates(i) ==
  LET meta == reg[i].new.raw_user_meta_data
  IN << Get(meta, "username"), Get(meta, "firstName"), Get(meta, "first_name"),
        SplitPart1(reg[i].new.email) >>

\* C20 as stated: when the uniqueness loop starts, the candidate username is the
\* first non-empty value among the supplied username, the supplied given name and
\* the local part of the address, and it is 'user' followed by a random integer
\* exactly when none of the three is non-empty
C20_Original ==
  \A i \in Ids :
     (reg[i].pc = "loop" /\ reg[i].username_counter = 0) =>
        IF FirstNonEmpty(Candidates(i)) # NULL
        THEN reg[i].new_username = FirstNonEmpty(Candidates(i))
        ELSE \E n \in RandomInts(RandRangeBase) :
                reg[i].new_username = UserPrefix \o IntToText(n)

\* the step in which the loop of registration i finds its username taken and
\* computes the next one to try
LoopRetryStep(i) ==
  /\ reg[i].pc = "loop" /\ reg'[i].pc = "loop"
  /\ reg'[i].username_counter = reg[i].username_counter + 1

\* C21 as stated: the k-th username the uniqueness loop retries is the candidate the
\* loop started with, a synthesized 'user' + random integer included, followed by
\* the number k: the first retry appends 1 to the username just found taken, and
\* the k-th replaces the k-1 the one before appended by k
C21_Original ==
  [][ \A i \in Ids :
        LoopRetryStep(i) =>
           LET k == reg'[i].username_counter
               tried == reg[i].new_username
               suffix == IF k = 1 THEN 0 ELSE Len(IntToText(k - 1))
               candidate == SubSeq(tried, 1, Len(tried) - suffix)
           IN reg'[i].new_username = candidate \o IntToText(k)
    ]_vars

\* the step in which the loop of registration i gives up at its bound
LoopBoundStep(i) ==
  /\ reg[i].pc = "loop"
  /\ reg'[i].username_counter = 1001
  /\ reg[i].username_counter = 1000

\* C22: the uniqueness loop always ends, whatever the table holds: its counter never
\* passes 1001, each step of the loop adds one to it or leaves the loop, and a
\* registration in the loop leaves it; when the counter passes the bound of 1000
\* the username becomes 'user' followed by a random integer and the loop is left at
\* once, whether or not that username is held
C22_LoopTerminates ==
  /\ [](\A i \in Ids : reg[i].username_counter <= 1001)
  /\ [][ \A i \in Ids :
           /\ (reg[i].pc = "loop" /\ reg'[i] # reg[i]) =>
                 \/ reg'[i].pc = "insert"
                 \/ reg'[i].pc = "loop" /\ reg'[i].username_counter = reg[i].username_counter + 1
           /\ LoopBoundStep(i) =>
                 /\ reg'[i].pc = "insert"
                 /\ \E n \in 0..99999 : reg'[i].new_username = UserPrefix \o IntToText(n)
       ]_vars
  /\ \A i \in Ids : (reg[i].pc = "loop") ~> (reg[i].pc # "loop")

\* a registration has left the loop at the bound with the username user0, which
\* another profile holds
C22_Witness ==
  \E i \in Ids :
     /\ reg[i].pc = "insert"
     /\ reg[i].username_counter = 1001
     /\ reg[i].new_username = <<"u", "s", "e", "r", "0">>
     /\ \E r \in user_profiles : r.username = reg[i].new_username

\* the step in which the loop of registration i is left
LoopExitStep(i) == reg[i].pc = "loop" /\ reg'[i].pc = "insert"

\* a profile of the table holds the username u
Held(u) == \E r \in user_profiles : r.username = u

\* C23 as stated: whenever the uniqueness loop is left, the username it resolved is
\* held by no profile of the table, and with no other registration running the
\* first INSERT never fails on a username conflict
C23_Original ==
  /\ [][ \A i \in Ids : LoopExitStep(i) => ~Held(reg'[i].new_username) ]_vars
  /\ [](\A i \in Ids : reg[i].first # "unique_violation")

\* C23: whenever the uniqueness loop is left because its check found the username
\* free (the counter has not passed the bound of 1000), the username it resolved is
\* held by no profile of the table; with no other registration running, the first
\* INSERT fails on a username conflict only after the loop was left at its bound,
\* where the random username is not checked
C23_ResolvedHandleFree ==
  /\ [][ \A i \in Ids :
           (LoopExitStep(i) /\ reg'[i].username_counter <= 1000) =>
              ~Held(reg'[i].new_username) ]_vars
  /\ [](\A i \in Ids :
           reg[i].first = "unique_violation" => reg[i].username_counter = 1001)

\* a registration found a, a1, ..., a999 held, left the loop with a1000 and has
\* committed the row of its first INSERT
C23_Witness ==
  \E i \in Ids : \E r \in ProfilesOf(i) :
     /\ reg[i].pc = "committed"
     /\ reg[i].username_counter = 1000
     /\ reg[i].first = "ok"
     /\ r.username = <<"a", "1", "0", "0", "0">>

\* u is 'user' followed by an integer of the range of the random fallback
IsFallbackUsername(u) == \E n \in 0..99999 : u = <<"u", "s", "e", "r">> \o IntToText(n)

\* C24: a registration whose first INSERT fails with a unique violation takes a
\* username 'user' + random integer and makes one more INSERT, and no more: no
\* registration makes more than two INSERTs, a second one is made only after the
\* first met a unique violation, and after the second, whether it succeeded or met
\* another conflict, the trigger makes no further attempt
C24_RetryOnce ==
  /\ [](\A i \in Ids :
           /\ reg[i].attempts <= 2
           /\ reg[i].attempts = 2 => reg[i].first = "unique_violation")
  /\ [][ \A i \in Ids :
           /\ (reg[i].pc = "insert" /\ reg'[i].first = "unique_violation") =>
                 reg'[i].pc = "handler" /\ reg'[i].attempts = 1
           /\ (reg[i].pc = "handler" /\ reg'[i] # reg[i]) =>
                 /\ reg'[i].attempts = 2
                 /\ IsFallbackUsername(reg'[i].new_username)
                 /\ reg'[i].pc \in {"returned", "aborted"}
           /\ reg[i].attempts = 2 => reg'[i].attempts = 2
       ]_vars

\* a registration met a unique violation at its first INSERT, drew a username that
\* a profile holds for its second, and has ended there after two attempts, with no
\* row
C24_Witness ==
  \E i \in Ids :
     /\ reg[i].first = "unique_violation"
     /\ reg[i].pc = "aborted"
     /\ reg[i].attempts = 2
     /\ Held(reg[i].new_username)
     /\ ProfilesOf(i) = {}

\* the first INSERT of registration i failed with an error that is not a unique
\* violation
OtherFailure(i) == reg[i].first = "others"

\* C25: when the first INSERT of a registration fails for a reason other than a
\* unique violation, the trigger returns at once without raising: it makes no
\* second attempt and writes no row, the identity-creation transaction is not
\* aborted, and once it has committed the identity exists without a profile
C25_OtherErrorsSwallowed ==
  /\ [][ \A i \in Ids :
           (reg[i].pc = "insert" /\ OtherFailure(i)') =>
              reg'[i].pc = "returned" /\ pending'[i] = {} ]_vars
  /\ [](\A i \in Ids :
           OtherFailure(i) =>
              /\ reg[i].pc \in {"returned", "committed"}
              /\ reg[i].attempts = 1
              /\ pending[i] = {}
              /\ ProfilesOf(i) = {}
              /\ reg[i].pc = "committed" => \E u \in auth_users : u.id = i)

\* an identity has been created although its profile INSERT failed, and has no
\* profile, next to an identity that has one
C25_Witness ==
  \E i, j \in Ids :
     /\ OtherFailure(i)
     /\ reg[i].pc = "committed"
     /\ \E u \in auth_users : u.id = i
     /\ ProfilesOf(i) = {}
     /\ ProfilesOf(j) # {}

\* the call of ensureUserProfile at c has gone past the return of lines 177-179
\* into the statements that create a profile (lines 181-206)
InCreatePath(c) == ens[c].pc \in {"getuser", "create"}

C27_Original ==
  \A c \in Clients :
     (hist[c].for # NoId /\ ~hist[c].fetchError) => ProfilesOf(hist[c].for) # {}

\* the profile of identity i was created by the client: the trigger left the
\* identity without a row
ClientCreated(i) == reg[i].pc = "committed" /\ OtherFailure(i) /\ ProfilesOf(i) # {}

EntersAuthenticated ==
  state'.isAuthenticated /\ (~state.isAuthenticated \/ state'.user # state.user)

\* C29: the reconciler becomes authenticated as an identity only in a step of one of
\* the four callers (initial session, signed-in notification, login, register) that
\* holds the result of a completed call of ensureUserProfile for that identity and
\* hands it on
C29_EnsureBeforeAuthenticated ==
  [][ EntersAuthenticated =>
        \E c \in Callers :
           /\ hist[c].for # NoId
           /\ hist'[c] = NoResult
           /\ \A u \in state'.user : u.id = hist[c].for
    ]_vars

\* the initial session query found no session and no call of login or register
\* was made: the reconciler is authenticated, through the signed-in notification,
\* as the identity of the session
C29_Witness ==
  /\ req.boot = "done" /\ req.bootUser = {}
  /\ req.calls = 0
  /\ state.isAuthenticated
  /\ \E u \in state.user : u.id = session

\* the step in which the auth service has answered the mirroring write and the
\* identity's metadata is as it was
MirrorFailedStep == upd.pc = "mirror" /\ upd'.pc = "idle" /\ auth_users' = auth_users

Superseded(c) ==
  /\ hist[c].for # NoId
  /\ session = NoId
  /\ req.logout = "idle"
  /\ "SIGNED_OUT" \notin inbox

\* C31 as stated: once a logout and its signed-out notification have been
\* processed, the result of a login or of a signed-in handler that was in flight
\* before does not make the reconciler authenticated again
C31_Original ==
  [][ \A c \in {"login", "onAuthStateChange"} :
        (Superseded(c) /\ hist'[c] = NoResult /\ ~state.isAuthenticated) =>
           ~state'.isAuthenticated
    ]_vars

\* C32 as stated: provided every remote call returns, every call of login or of
\* register is followed by a state with isLoading false, whether the auth service
\* answered with an error, with a user, or with neither
C32_Original ==
  /\ (req.login = "signin") ~> ~state.isLoading
  /\ (req.register = "signup") ~> ~state.isLoading

\* the step in which a call of updateProfile resolves
UpdateResolveStep == upd.pc # "idle" /\ upd'.pc = "idle" /\ upd'.outcome = "resolved"

\* C33 as stated: when updateProfile(updates) resolves, the view model derived anew
\* from the stored profile row and the identity's metadata has, for every field of
\* updates, the username and fields set to an empty text included, the value the
\* caller supplied
C33_Original ==
  [][ UpdateResolveStep =>
        \A a \in auth_users' :
           a.id = upd.userId =>
              LET stored == {r \in user_profiles' : r.id = upd.userId}
                  derived == convertToAuthUser(a, stored, clock')
              IN \A k \in DOMAIN upd.updates : derived[k] = upd.updates[k]
    ]_vars

\* C34: in every reachable state of the reconciler isAuthenticated is true exactly
\* when a user is held, and an error is held only when the reconciler is
\* unauthenticated
C34_AuthenticatedIffUser ==
  /\ state.isAuthenticated <=> state.user # {}
  /\ state.error # NULL => (~state.isAuthenticated /\ state.user = {})

\* the reconciler was authenticated from the initial session and a later login
\* with other credentials has failed: it holds the error and no user, while the
\* session is still there
C34_Witness ==
  /\ req.boot = "done" /\ req.bootUser # {}
  /\ session # NoId
  /\ state.error = <<"e", "r", "r">>
  /\ state.user = {}
  /\ ~state.isAuthenticated

\* a call of login has not returned yet, or a call of register awaits signUp
CredentialInFlight == req.login # "idle" \/ req.register = "signup"

\* C35 as stated: isLoading is true in every state in which a login or register
\* request is in flight; the end of the initial session check, of a profile update
\* or the handling of a signed-out notification does not clear it
C35_Original == CredentialInFlight => state.isLoading

\* the step in which a read of a profile is answered at c
ReadStep(c) == hist'[c] # hist[c] /\ hist'[c].for # NoId

====
